---------------------------- MODULE Spec2Model ----------------------------
(***************************************************************************)
(* PlantaCheck: the watering-schedule computation of the dashboard page    *)
(* (src/src/app/dashboard/page.tsx): date arithmetic on YYYY-MM-DD tokens, *)
(* the status evaluator (normalizeFrequencyDays + computeStatus) and the   *)
(* ranked card list (filteredCards).                                       *)
(*                                                                         *)
(* Representation.                                                         *)
(*   - A date token "YYYY-MM-DD" is the tuple <<y, m, d>> of the numbers   *)
(*     that dateIso.split("-").map(Number) yields.                         *)
(*   - null / undefined is the empty tuple Null; a number or a message     *)
(*     that may be null is boxed as <<n>>.                                 *)
(*   - A time value is counted in hours, not milliseconds (one tick is     *)
(*     3 600 000 ms), so that epoch times stay inside TLC's integers; the  *)
(*     code's 24 * 60 * 60 * 1000 is DayMs = 24 ticks.                     *)
(*   - A plant name is the tuple of its UTF-16 code units.                 *)
(***************************************************************************)
EXTENDS Integers, Sequences, FiniteSets, TLC

VARIABLES
    \* date-arithmetic harness
    datePc,            \* "input" | "added" | "diffed"
    dIso,              \* the date token handed to addDaysToIso
    nDays,             \* the day count handed to addDaysToIso
    outIso,            \* addDaysToIso(dIso, nDays)
    fwdDiff,           \* diffDaysIso(dIso, outIso)
    backDiff,          \* diffDaysIso(outIso, dIso)
    \* the browser
    route,             \* the mounted page: "dashboard" | "planta" | "home" |
                       \* "plants" | "none"
    clockIso,          \* nowInBrasiliaParts().dateIso, the civil date in Brasilia
    \* component state (useState / useMemo) of the mounted page
    loading,           \* dashboard, planta, plants: loading
    err,               \* dashboard, planta, plants: err
    plants,            \* dashboard, home, plants: plants
    plant,             \* planta: plant
    events,            \* dashboard, planta: events
    todayIso,          \* dashboard: useMemo(() => nowInBrasiliaParts().dateIso, [])
    query,             \* dashboard, home: query
    statusFilter,      \* dashboard, home: statusFilter
    allCards,          \* dashboard: allCards
    filteredCards,     \* dashboard: filteredCards
    nextInfo,          \* planta: nextInfo
    sortBy,            \* home: sortBy
    hydrated,          \* home: hydrated
    visiblePlants,     \* home: visiblePlants
    manualError,       \* planta: manualError
    editError,         \* planta: editError
    manualDateBr,      \* planta: manualDateBr
    manualTime,        \* planta: manualTime
    \* the database
    plantsTable,       \* the rows of table plants, in order of creation
    eventsTable,       \* the rows of table events, in order of creation
    households,        \* the rows of table households
    uniqueColumns,     \* the columns of households under a UNIQUE constraint
    \* the calls of getOrCreateHousehold in flight
    callPc,            \* per call: "idle" | "getUser" | "select" | "insert" |
                       \* "returned" | "thrown"
    attempt,           \* per call: inserts attempted so far
    callErr,           \* per call: the last error met, Null when none
    callResult,        \* per call: the household returned
    \* the home page open in the browsers of the household's members
    memberPlants,      \* per member: plants
    pending,           \* per member: the request awaited, Null when none
    realtime,          \* per member: the postgres_changes payloads on the way
    accepted,          \* the waterings the server has accepted so far
    clockMinute,       \* the time of day, counted in operations started
    \* dashboard: batch mode and the requests in flight
    mode,              \* dashboard: mode
    selected,          \* dashboard: the ids selected[id] is true of
    savingBatch,       \* dashboard: savingBatch
    confirming,        \* the confirmBatch in flight, Null when none
    reloading,         \* the loadAll in flight, Null when none: whether the
                       \* server has answered and the rows it answered with
    \* plant detail: removePlant; the local-storage variant
    removing,          \* the removePlant in flight: its stage and the plant's
                       \* events stored when it started
    localPlants        \* local-storage variant: plants, as kept under
                       \* STORAGE_KEY

dateVars == <<datePc, dIso, nDays, outIso, fwdDiff, backDiff>>

pageVars == <<route, clockIso, loading, err, plants, plant, events, todayIso,
              query, statusFilter, allCards, filteredCards, nextInfo, sortBy,
              hydrated, visiblePlants>>

formVars == <<manualError, editError, manualDateBr, manualTime>>

dbVars == <<plantsTable, eventsTable>>

houseVars == <<households, uniqueColumns, callPc, attempt, callErr, callResult>>

homeVars == <<memberPlants, pending, realtime, accepted, clockMinute>>

batchVars == <<mode, selected, savingBatch, confirming, reloading>>

localVars == <<removing, localPlants>>

\* the variables of the parts specified further down
laterVars == <<houseVars, homeVars, batchVars, localVars>>

vars == <<dateVars, pageVars, formVars, dbVars, laterVars>>

Null == <<>>

Some(n) == <<n>>

-----------------------------------------------------------------------------
(* Bounds *)

FirstYear == 2024      \* first year of the calendar window

YearSpan == 3          \* number of years in the calendar window

MaxShift == 20         \* addDaysToIso is called with -MaxShift .. MaxShift

EvalSpan == 20         \* the evaluator's dates are EvalStart + 0 .. EvalSpan days

MaxFreq == 7           \* stored frequencies are null or -1 .. MaxFreq

MaxPlants == 2         \* plants of a household in the ranked lists

MaxDaysOpen == 2       \* midnights that pass while a page stays open

MaxEvents == 3         \* rows of table events

\* .limit(2000) of the dashboard's events query, scaled to MaxEvents
DashboardEventsLimit == 2

\* .limit(500) of the plant detail page's events query, scaled to MaxEvents
PlantEventsLimit == 2

MaxTextLen == 2        \* characters typed into the frequency field

MaxManual == 2         \* manual waterings stored

MaxCalls == 2          \* calls of getOrCreateHousehold for one user

MaxMembers == 2        \* members of the household with the home page open

MaxPresses == 2        \* operations the members start on the home page

MaxWaterings == 3      \* entries of a plant's waterings history

MaxMinute == 1         \* minutes that pass while the pages are used

\* for (let attempt = 1; attempt <= 5; attempt++)
MaxAttempts == 5

-----------------------------------------------------------------------------
(* The civil (proleptic Gregorian) calendar, by month lengths.  This is    *)
(* the reference the claims are stated against; the code never uses it.    *)

IsLeapYear(y) == (y % 4 = 0) /\ ((y % 100 # 0) \/ (y % 400 = 0))

DaysInMonth(y, m) ==
    IF m = 2 THEN (IF IsLeapYear(y) THEN 29 ELSE 28)
    ELSE IF m \in {4, 6, 9, 11} THEN 30 ELSE 31

IsCivilDate(t) ==
    /\ Len(t) = 3
    /\ t[2] \in 1..12
    /\ t[3] \in 1..DaysInMonth(t[1], t[2])

CivilDates(yFrom, yTo) ==
    {t \in (yFrom..yTo) \X (1..12) \X (1..31) : t[3] <= DaysInMonth(t[1], t[2])}

NextDay(t) ==
    IF t[3] < DaysInMonth(t[1], t[2]) THEN <<t[1], t[2], t[3] + 1>>
    ELSE IF t[2] < 12 THEN <<t[1], t[2] + 1, 1>>
    ELSE <<t[1] + 1, 1, 1>>

PrevDay(t) ==
    IF t[3] > 1 THEN <<t[1], t[2], t[3] - 1>>
    ELSE IF t[2] > 1 THEN <<t[1], t[2] - 1, DaysInMonth(t[1], t[2] - 1)>>
    ELSE <<t[1] - 1, 12, 31>>

RECURSIVE ShiftDays(_, _)
ShiftDays(t, n) ==
    IF n = 0 THEN t
    ELSE IF n > 0 THEN ShiftDays(NextDay(t), n - 1)
    ELSE ShiftDays(PrevDay(t), n + 1)

\* t comes before u in the calendar
DateBefore(t, u) ==
    \/ t[1] < u[1]
    \/ t[1] = u[1] /\ t[2] < u[2]
    \/ t[1] = u[1] /\ t[2] = u[2] /\ t[3] < u[3]

-----------------------------------------------------------------------------
(* Date (ECMAScript time values), as used through Date.UTC and the getUTC* *)
(* accessors.  Times are in ticks of one hour.                             *)

DayMs == 24

Day(t) == t \div DayMs

DaysInYear(y) == IF IsLeapYear(y) THEN 366 ELSE 365

DayFromYear(y) ==
    365 * (y - 1970) + ((y - 1969) \div 4) - ((y - 1901) \div 100)
        + ((y - 1601) \div 400)

TimeFromYear(y) == DayMs * DayFromYear(y)

YearFromTime(t) ==
    CHOOSE y \in (1970 + (Day(t) \div 366) - 1)..(1970 + (Day(t) \div 365) + 1) :
        TimeFromYear(y) <= t /\ t < TimeFromYear(y + 1)

InLeapYear(t) == IF DaysInYear(YearFromTime(t)) = 366 THEN 1 ELSE 0

DayWithinYear(t) == Day(t) - DayFromYear(YearFromTime(t))

\* first day-within-year of month index mi (0..12) when the leap flag is l
MonthStart(mi, l) ==
    IF mi = 0 THEN 0
    ELSE IF mi = 1 THEN 31
    ELSE <<59, 90, 120, 151, 181, 212, 243, 273, 304, 334, 365>>[mi - 1] + l

MonthFromTime(t) ==
    LET leap == InLeapYear(t)
        dwy  == DayWithinYear(t)
    IN  CHOOSE mi \in 0..11 :
            MonthStart(mi, leap) <= dwy /\ dwy < MonthStart(mi + 1, leap)

DateFromTime(t) ==
    LET leap == InLeapYear(t)
        dwy  == DayWithinYear(t)
    IN  dwy - MonthStart(MonthFromTime(t), leap) + 1

\* MakeDay(year, month, date): month is an index and may lie outside 0..11,
\* date may lie outside the month; both carry over.
MakeDay(year, month, date) ==
    LET ym == year + (month \div 12)
        mn == month % 12
    IN  DayFromYear(ym) + MonthStart(mn, IF IsLeapYear(ym) THEN 1 ELSE 0)
            + date - 1

\* Date.UTC(y, monthIndex, d): years 0..99 mean 1900..1999.
DateUTC(y, monthIndex, d) ==
    LET yr == IF y \in 0..99 THEN 1900 + y ELSE y
    IN  MakeDay(yr, monthIndex, d) * DayMs

-----------------------------------------------------------------------------
(* Date arithmetic of the page.                                            *)

formatIsoToBrDate(dateIso) == <<dateIso[3], dateIso[2], dateIso[1]>>

\* the month handed to Date.UTC as written in the token instead of as an index
dateIsoToUtcMs_MonthNotShifted(dateIso) ==
    DateUTC(dateIso[1], dateIso[2], dateIso[3])

dateIsoToUtcMs(dateIso) == DateUTC(dateIso[1], dateIso[2] - 1, dateIso[3])

\* getUTCMonth() written out without the + 1
addDaysToIso_MonthIndex(dateIso, addDays) ==
    LET ms  == DateUTC(dateIso[1], dateIso[2] - 1, dateIso[3])
        out == ms + addDays * DayMs
    IN  <<YearFromTime(out), MonthFromTime(out), DateFromTime(out)>>

addDaysToIso(dateIso, addDays) ==
    LET ms  == dateIsoToUtcMs(dateIso)
        out == ms + addDays * DayMs
    IN  <<YearFromTime(out), MonthFromTime(out) + 1, DateFromTime(out)>>

\* both end days counted
diffDaysIso_Inclusive(aIso, bIso) ==
    ((DateUTC(bIso[1], bIso[2] - 1, bIso[3])
        - DateUTC(aIso[1], aIso[2] - 1, aIso[3])) \div DayMs) + 1

\* a - b instead of b - a
diffDaysIso_Reversed(aIso, bIso) ==
    (DateUTC(aIso[1], aIso[2] - 1, aIso[3])
        - DateUTC(bIso[1], bIso[2] - 1, bIso[3])) \div DayMs

diffDaysIso(aIso, bIso) ==
    LET a == dateIsoToUtcMs(aIso)
        b == dateIsoToUtcMs(bIso)
    IN  (b - a) \div DayMs

-----------------------------------------------------------------------------
(* Strings.  A string is the tuple of its code units; the operators below  *)
(* are exact on the ASCII letters and the space the model uses.            *)

IsUpper(c) == c \in 65..90

toLowerCaseUnit(c) == IF IsUpper(c) THEN c + 32 ELSE c

toLowerCase(str) == [i \in 1..Len(str) |-> toLowerCaseUnit(str[i])]

RECURSIVE trimStart(_)
trimStart(str) ==
    IF str # <<>> /\ Head(str) = 32 THEN trimStart(Tail(str)) ELSE str

RECURSIVE trimEnd(_)
trimEnd(str) ==
    IF str # <<>> /\ str[Len(str)] = 32
    THEN trimEnd(SubSeq(str, 1, Len(str) - 1)) ELSE str

trim(str) == trimEnd(trimStart(str))

includes(str, q) ==
    \E i \in 0..(Len(str) - Len(q)) : SubSeq(str, i + 1, i + Len(q)) = q

\* first level of the collation: letters, whatever their case
RECURSIVE comparePrimary(_, _)
comparePrimary(a, b) ==
    IF a = <<>> /\ b = <<>> THEN 0
    ELSE IF a = <<>> THEN -1
    ELSE IF b = <<>> THEN 1
    ELSE IF toLowerCaseUnit(Head(a)) < toLowerCaseUnit(Head(b)) THEN -1
    ELSE IF toLowerCaseUnit(Head(a)) > toLowerCaseUnit(Head(b)) THEN 1
    ELSE comparePrimary(Tail(a), Tail(b))

\* last level, for strings equal on the first: lower case before upper case
RECURSIVE compareCase(_, _)
compareCase(a, b) ==
    IF a = <<>> \/ b = <<>> THEN 0
    ELSE IF ~IsUpper(Head(a)) /\ IsUpper(Head(b)) THEN -1
    ELSE IF IsUpper(Head(a)) /\ ~IsUpper(Head(b)) THEN 1
    ELSE compareCase(Tail(a), Tail(b))

\* a.localeCompare(b, "pt-BR")
localeCompare(a, b) ==
    IF comparePrimary(a, b) # 0 THEN comparePrimary(a, b) ELSE compareCase(a, b)

-----------------------------------------------------------------------------
(* Dashboard: the schedule evaluator.                                      *)

StatusKeys == {"semFrequencia", "primeiraRega", "emDia", "hoje", "atrasada"}

Abs(n) == IF n < 0 THEN -n ELSE n

\* frequency_days and watering_interval_days are Null or Some(n): the typeof
\* tests of the code keep a number and turn anything else into null.
\* only the falsy test, without  v <= 0
normalizeFrequencyDays_KeepsNegative(p) ==
    LET v == IF p.frequency_days # Null THEN p.frequency_days
             ELSE p.watering_interval_days
    IN  IF v = Null \/ v[1] = 0 THEN Null ELSE v

normalizeFrequencyDays(p) ==
    LET a == p.frequency_days
        b == p.watering_interval_days
        v == IF a # Null THEN a ELSE b
    IN  IF v = Null \/ v[1] = 0 \/ v[1] <= 0 THEN Null ELSE v

StatusInfo(k, l) == [key |-> k, label |-> l]

\* the text template: its fixed parts and the values put into it
NextText(lead, freq, next, tail, days) ==
    [lead |-> lead, freq |-> freq, next |-> next, tail |-> tail, days |-> days]

\* return of the branch  if (!frequencyDays)
noFrequencyResult ==
    [status      |-> StatusInfo("semFrequencia", "Sem frequencia"),
     nextText    |-> NextText("Frequencia", Null, Null, "-", Null),
     nextDateIso |-> Null,
     deltaDays   |-> Null]

\* return of the branch  if (!lastWaterDateIso)
firstWateringResult(frequencyDays) ==
    [status      |-> StatusInfo("primeiraRega", "Primeira rega"),
     nextText    |-> NextText("Frequencia", frequencyDays, Null, "Proxima: -",
                              Null),
     nextDateIso |-> Null,
     deltaDays   |-> Null]

\* deltaDays written  delta || null
scheduledResult_FalsyDelta(nextIso, delta) ==
    [status      |-> StatusInfo(IF delta < 0 THEN "atrasada"
                                ELSE IF delta = 0 THEN "hoje" ELSE "emDia",
                                "-"),
     nextText    |-> NextText("Proxima", Null, formatIsoToBrDate(nextIso), "-",
                              Null),
     nextDateIso |-> nextIso,
     deltaDays   |-> IF delta = 0 THEN Null ELSE Some(delta)]

\* the three returns that follow the computation of delta
scheduledResult(nextIso, delta) ==
    IF delta < 0 THEN
        [status      |-> StatusInfo("atrasada", "Atrasada"),
         nextText    |-> NextText("Proxima", Null, formatIsoToBrDate(nextIso),
                                  "Atrasada ha", Some(Abs(delta))),
         nextDateIso |-> nextIso,
         deltaDays   |-> Some(delta)]
    ELSE IF delta = 0 THEN
        [status      |-> StatusInfo("hoje", "Hoje"),
         nextText    |-> NextText("Proxima", Null, formatIsoToBrDate(nextIso),
                                  "Hoje", Null),
         nextDateIso |-> nextIso,
         deltaDays   |-> Some(delta)]
    ELSE
        [status      |-> StatusInfo("emDia", "Em dia"),
         nextText    |-> NextText("Proxima", Null, formatIsoToBrDate(nextIso),
                                  "Faltam", Some(delta)),
         nextDateIso |-> nextIso,
         deltaDays   |-> Some(delta)]

\* what the caller gets when computeStatus throws
thrown(what) ==
    [status      |-> StatusInfo(what, what),
     nextText    |-> NextText(what, Null, Null, "-", Null),
     nextDateIso |-> Null,
     deltaDays   |-> Null]

\* the last-date test made before the frequency test
computeStatus_LastTestedFirst(args) ==
    IF args.lastWaterDateIso = Null
    THEN firstWateringResult(args.frequencyDays)
    ELSE IF args.frequencyDays = Null \/ args.frequencyDays[1] = 0
    THEN noFrequencyResult
    ELSE scheduledResult(
            addDaysToIso(args.lastWaterDateIso, args.frequencyDays[1]),
            diffDaysIso(args.todayIso,
                addDaysToIso(args.lastWaterDateIso, args.frequencyDays[1])))

\* the last-date test left out: null.split("-") throws a TypeError
computeStatus_NoLastTest(args) ==
    IF args.frequencyDays = Null \/ args.frequencyDays[1] = 0
    THEN noFrequencyResult
    ELSE IF args.lastWaterDateIso = Null
    THEN thrown("TypeError")
    ELSE scheduledResult(
            addDaysToIso(args.lastWaterDateIso, args.frequencyDays[1]),
            diffDaysIso(args.todayIso,
                addDaysToIso(args.lastWaterDateIso, args.frequencyDays[1])))

computeStatus(args) ==
    LET frequencyDays    == args.frequencyDays
        lastWaterDateIso == args.lastWaterDateIso
        todayIso_        == args.todayIso
        nextIso == addDaysToIso(lastWaterDateIso, frequencyDays[1])
        delta   == diffDaysIso(todayIso_, nextIso)
    IN  IF frequencyDays = Null \/ frequencyDays[1] = 0 THEN noFrequencyResult
        ELSE IF lastWaterDateIso = Null THEN firstWateringResult(frequencyDays)
        ELSE scheduledResult(nextIso, delta)

\* atrasada and hoje exchanged
statusPriority_HojeFirst(k) ==
    IF k = "hoje" THEN 0
    ELSE IF k = "atrasada" THEN 1
    ELSE IF k = "emDia" THEN 2
    ELSE IF k = "primeiraRega" THEN 3
    ELSE 4

statusPriority(k) ==
    IF k = "atrasada" THEN 0
    ELSE IF k = "hoje" THEN 1
    ELSE IF k = "emDia" THEN 2
    ELSE IF k = "primeiraRega" THEN 3
    ELSE 4

\* lastEventByPlantAndType.get(plantId)?.[type]: the first event of the plant
\* and type in the list, which the query returns newest first
lastEventByPlantAndType(evs, plantId, type) ==
    LET hits == {i \in 1..Len(evs) :
                    evs[i].plant_id = plantId /\ evs[i].event_type = type}
    IN  IF hits = {} THEN Null
        ELSE evs[CHOOSE i \in hits : \A j \in hits : i <= j]

\* one element of allCards; no places are stored, so place_id is null and the
\* label is the plant's own place
CardVM(p, evs, today) ==
    LET freq             == normalizeFrequencyDays(p)
        lastWaterEvent   == lastEventByPlantAndType(evs, p.id, "water")
        lastWaterDateIso == IF lastWaterEvent = Null THEN Null
                            ELSE lastWaterEvent.event_date
        st == computeStatus([frequencyDays    |-> freq,
                             lastWaterDateIso |-> lastWaterDateIso,
                             todayIso         |-> today])
    IN  [plant            |-> p,
         freq             |-> freq,
         placeLabel       |-> p.place,
         lastWaterDateIso |-> lastWaterDateIso,
         status           |-> st.status,
         nextText         |-> st.nextText,
         nextDateIso      |-> st.nextDateIso,
         deltaDays        |-> st.deltaDays]

allCardsOf(ps, evs, today) == [i \in 1..Len(ps) |-> CardVM(ps[i], evs, today)]

\* the deltaDays level written  b - a
compareCards_DeltaDescending(a, b) ==
    LET pa == statusPriority(a.status.key)
        pb == statusPriority(b.status.key)
    IN  IF pa # pb THEN pa - pb
        ELSE IF a.deltaDays # Null /\ b.deltaDays # Null
                /\ a.deltaDays # b.deltaDays
            THEN b.deltaDays[1] - a.deltaDays[1]
        ELSE localeCompare(a.plant.name, b.plant.name)

\* the comparator handed to sort
compareCards(a, b) ==
    LET pa == statusPriority(a.status.key)
        pb == statusPriority(b.status.key)
    IN  IF pa # pb THEN pa - pb
        ELSE IF a.deltaDays # Null /\ b.deltaDays # Null
                /\ a.deltaDays # b.deltaDays
            THEN a.deltaDays[1] - b.deltaDays[1]
        ELSE localeCompare(a.plant.name, b.plant.name)

\* an element put before those it compares equal to: equal elements come out
\* in reverse order
RECURSIVE insertCard_BeforeEquals(_, _)
insertCard_BeforeEquals(sorted, c) ==
    IF sorted = <<>> THEN <<c>>
    ELSE IF compareCards(c, Head(sorted)) <= 0 THEN <<c>> \o sorted
    ELSE <<Head(sorted)>> \o insertCard_BeforeEquals(Tail(sorted), c)

\* Array.prototype.sort is stable: an element goes after those it does not
\* come strictly before
RECURSIVE insertCard(_, _)
insertCard(sorted, c) ==
    IF sorted = <<>> THEN <<c>>
    ELSE IF compareCards(c, Head(sorted)) < 0 THEN <<c>> \o sorted
    ELSE <<Head(sorted)>> \o insertCard(Tail(sorted), c)

RECURSIVE sortCards(_)
sortCards(cards) ==
    IF cards = <<>> THEN <<>>
    ELSE insertCard(sortCards(SubSeq(cards, 1, Len(cards) - 1)),
                    cards[Len(cards)])

matchesCard(c, q, sf) ==
    LET matchesQuery ==
            \/ q = <<>>
            \/ includes(toLowerCase(c.plant.name), q)
            \/ includes(toLowerCase(IF c.placeLabel = Null THEN <<>>
                                    ELSE c.placeLabel), q)
        matchesStatus == IF sf = "all" THEN TRUE ELSE c.status.key = sf
    IN  matchesQuery /\ matchesStatus

filteredCardsOf(cards, qry, sf) ==
    LET q == toLowerCase(trim(qry))
    IN  sortCards(SelectSeq(cards, LAMBDA c : matchesCard(c, q, sf)))

-----------------------------------------------------------------------------
(* Plant detail page: frequencyDays, lastWaterEvent and getNextWaterInfo.  *)
(* todayIsoBrasilia() reads the clock; the date it returns is nowIso.      *)

NextWaterInfo(kind, next, delta, txt) ==
    [kind        |-> kind,
     nextDateIso |-> next,
     deltaDays   |-> delta,
     isOverdue   |-> delta # Null /\ delta[1] < 0,
     isToday     |-> delta # Null /\ delta[1] = 0,
     text        |-> txt]

getNextWaterInfo(args, nowIso) ==
    LET frequencyDays    == args.frequencyDays
        lastWaterDateIso == args.lastWaterDateIso
        nextIso == addDaysToIso(lastWaterDateIso, frequencyDays[1])
        delta   == diffDaysIso(nowIso, nextIso)
    IN  IF frequencyDays = Null \/ frequencyDays[1] = 0 \/ frequencyDays[1] <= 0
        THEN NextWaterInfo("noFrequency", Null, Null,
                           NextText("Frequencia", Null, Null, "-", Null))
        ELSE IF lastWaterDateIso = Null
        THEN NextWaterInfo("noLast", Null, Null,
                           NextText("Frequencia", frequencyDays, Null,
                                    "Proxima: -", Null))
        ELSE NextWaterInfo("ok", nextIso, Some(delta),
                NextText("Proxima", Null, formatIsoToBrDate(nextIso),
                         IF delta = 0 THEN "Hoje"
                         ELSE IF delta < 0 THEN "Atrasada ha" ELSE "Faltam",
                         IF delta = 0 THEN Null ELSE Some(Abs(delta))))

\* const frequencyDays = useMemo(...)
plantFrequencyDays(p) ==
    LET v == IF p = Null THEN Null ELSE p.frequency_days
    IN  IF v = Null \/ v[1] = 0 \/ v[1] <= 0 THEN Null ELSE v

\* events.find((e) => e.event_type === "water") ?? null
lastWaterEventOf(evs) ==
    LET hits == {i \in 1..Len(evs) : evs[i].event_type = "water"}
    IN  IF hits = {} THEN Null
        ELSE evs[CHOOSE i \in hits : \A j \in hits : i <= j]

nextInfoOf(p, evs, nowIso) ==
    LET lastWaterEvent == lastWaterEventOf(evs)
    IN  getNextWaterInfo(
            [frequencyDays    |-> plantFrequencyDays(p),
             lastWaterDateIso |-> IF lastWaterEvent = Null THEN Null
                                  ELSE lastWaterEvent.event_date],
            nowIso)

-----------------------------------------------------------------------------
(* Home page: getNextWaterInfo, statusForPlant, urgencyScore, compareBySort *)
(* and visiblePlants.  A Plant row carries last_watered_date_iso itself.   *)

homeGetNextWaterInfo(p, nowIso) ==
    LET nextIso == addDaysToIso(p.last_watered_date_iso, p.frequency_days[1])
        delta   == diffDaysIso(nowIso, nextIso)
    IN  IF p.frequency_days = Null \/ p.frequency_days[1] = 0
           \/ p.frequency_days[1] <= 0
        THEN NextWaterInfo("noFrequency", Null, Null,
                           NextText("Frequencia", Null, Null, "-", Null))
        ELSE IF p.last_watered_date_iso = Null
        THEN NextWaterInfo("noLast", Null, Null,
                           NextText("Frequencia", p.frequency_days, Null,
                                    "Proxima: -", Null))
        ELSE NextWaterInfo("ok", nextIso, Some(delta),
                NextText("Proxima", Null, formatIsoToBrDate(nextIso),
                         IF delta = 0 THEN "Hoje"
                         ELSE IF delta < 0 THEN "Atrasada ha" ELSE "Faltam",
                         IF delta = 0 THEN Null ELSE Some(Abs(delta))))

statusForPlant(p, nowIso) ==
    LET next == homeGetNextWaterInfo(p, nowIso)
        days == diffDaysIso(p.last_watered_date_iso, nowIso)
    IN  IF p.last_watered_date_iso = Null
        THEN StatusInfo("semRega", "Sem registro")
        ELSE IF p.frequency_days # Null /\ p.frequency_days[1] > 0
                /\ next.kind = "ok"
        THEN IF next.isOverdue THEN StatusInfo("urgente", "Atrasada")
             ELSE IF next.isToday THEN StatusInfo("atencao", "Hoje")
             ELSE StatusInfo("emDia", "Em dia")
        ELSE IF days <= 2 THEN StatusInfo("emDia", "Em dia")
        ELSE IF days <= 5 THEN StatusInfo("atencao", "Atencao")
        ELSE StatusInfo("urgente", "Regar urgente")

urgencyScore(p, nowIso) ==
    LET next == homeGetNextWaterInfo(p, nowIso)
    IN  IF p.last_watered_date_iso = Null THEN 10000
        ELSE IF next.kind = "ok" THEN
            IF next.deltaDays[1] < 0 THEN 5000 + Abs(next.deltaDays[1])
            ELSE IF next.deltaDays[1] = 0 THEN 2500
            ELSE 100 - next.deltaDays[1]
        ELSE diffDaysIso(p.last_watered_date_iso, nowIso)

compareBySort(a, b, sort, nowIso) ==
    LET sa   == urgencyScore(a, nowIso)
        sb   == urgencyScore(b, nowIso)
        aHas == a.last_watered_date_iso # Null
        bHas == b.last_watered_date_iso # Null
        da   == diffDaysIso(a.last_watered_date_iso, nowIso)
        db   == diffDaysIso(b.last_watered_date_iso, nowIso)
    IN  IF sort = "urgentePrimeiro" THEN
            IF sb # sa THEN sb - sa ELSE localeCompare(a.name, b.name)
        ELSE IF sort = "recentesPrimeiro" THEN
            IF aHas # bHas THEN (IF aHas THEN -1 ELSE 1)
            ELSE IF ~aHas \/ ~bHas THEN localeCompare(a.name, b.name)
            ELSE IF da # db THEN da - db
            ELSE localeCompare(a.name, b.name)
        ELSE localeCompare(a.name, b.name)

RECURSIVE insertPlant(_, _, _, _)
insertPlant(sorted, p, sort, nowIso) ==
    IF sorted = <<>> THEN <<p>>
    ELSE IF compareBySort(p, Head(sorted), sort, nowIso) < 0 THEN <<p>> \o sorted
    ELSE <<Head(sorted)>> \o insertPlant(Tail(sorted), p, sort, nowIso)

RECURSIVE sortPlants(_, _, _)
sortPlants(ps, sort, nowIso) ==
    IF ps = <<>> THEN <<>>
    ELSE insertPlant(sortPlants(SubSeq(ps, 1, Len(ps) - 1), sort, nowIso),
                     ps[Len(ps)], sort, nowIso)

matchesPlant(p, q, sf, nowIso) ==
    LET matchesQuery ==
            \/ q = <<>>
            \/ includes(toLowerCase(p.name), q)
            \/ includes(toLowerCase(IF p.place = Null THEN <<>> ELSE p.place), q)
        matchesStatus ==
            IF sf = "all" THEN TRUE ELSE statusForPlant(p, nowIso).key = sf
    IN  matchesQuery /\ matchesStatus

visiblePlantsOf(ps, qry, sf, sort, nowIso) ==
    LET q == toLowerCase(trim(qry))
    IN  sortPlants(SelectSeq(ps, LAMBDA p : matchesPlant(p, q, sf, nowIso)),
                   sort, nowIso)

-----------------------------------------------------------------------------
(* Specification SpecDate: the date arithmetic applied to every date of    *)
(* the calendar window and every day count in -MaxShift .. MaxShift.       *)

Dates == CivilDates(FirstYear, FirstYear + YearSpan - 1)

\* no page is mounted
PagesIdle ==
    /\ route = "none"
    /\ clockIso = Null
    /\ loading = FALSE
    /\ err = Null
    /\ plants = <<>>
    /\ plant = Null
    /\ events = <<>>
    /\ todayIso = Null
    /\ query = <<>>
    /\ statusFilter = "all"
    /\ allCards = <<>>
    /\ filteredCards = <<>>
    /\ nextInfo = Null
    /\ sortBy = "urgentePrimeiro"
    /\ hydrated = FALSE
    /\ visiblePlants = <<>>
    /\ manualError = Null
    /\ editError = Null
    /\ manualDateBr = <<>>
    /\ manualTime = <<>>

\* the specification hands the loaders the rows their queries return; the
\* tables themselves are not followed
TablesUntracked ==
    /\ plantsTable = <<>>
    /\ eventsTable = <<>>

\* no call of getOrCreateHousehold is followed
HouseholdIdle ==
    /\ households = <<>>
    /\ uniqueColumns = {}
    /\ callPc = <<>>
    /\ attempt = <<>>
    /\ callErr = <<>>
    /\ callResult = <<>>

\* no member's home page is followed
HomeIdle ==
    /\ memberPlants = <<>>
    /\ pending = <<>>
    /\ realtime = <<>>
    /\ accepted = {}
    /\ clockMinute = 0

\* the dashboard's batch mode is not followed
BatchIdle ==
    /\ mode = "idle"
    /\ selected = {}
    /\ savingBatch = FALSE
    /\ confirming = Null
    /\ reloading = Null

\* no removePlant is in flight and the local-storage variant is not followed
LocalIdle ==
    /\ removing = [stage |-> "idle", before |-> <<>>]
    /\ localPlants = <<>>

LaterIdle == HouseholdIdle /\ HomeIdle /\ BatchIdle /\ LocalIdle

\* the date-arithmetic harness is not running
DateIdle ==
    /\ datePc = "idle"
    /\ dIso = Null
    /\ nDays = 0
    /\ outIso = Null
    /\ fwdDiff = Null
    /\ backDiff = Null

InitDate ==
    /\ PagesIdle
    /\ LaterIdle
    /\ TablesUntracked
    /\ datePc = "input"
    /\ dIso \in Dates
    /\ nDays = 0
    /\ outIso = Null
    /\ fwdDiff = Null
    /\ backDiff = Null

AddDays(n) ==
    /\ datePc = "input"
    /\ datePc' = "added"
    /\ nDays' = n
    /\ outIso' = addDaysToIso(dIso, n)
    /\ UNCHANGED <<dIso, fwdDiff, backDiff, pageVars, formVars, dbVars,
                   laterVars>>

DiffDays ==
    /\ datePc = "added"
    /\ datePc' = "diffed"
    /\ fwdDiff' = Some(diffDaysIso(dIso, outIso))
    /\ backDiff' = Some(diffDaysIso(outIso, dIso))
    /\ UNCHANGED <<dIso, nDays, outIso, pageVars, formVars, dbVars,
                   laterVars>>

NextDate ==
    \/ \E n \in (-MaxShift)..MaxShift : AddDays(n)
    \/ DiffDays

SpecDate == InitDate /\ [][NextDate]_vars

-----------------------------------------------------------------------------
(* The pages as state machines.  A page is mounted with its useState       *)
(* defaults; its mount effect loads the household's rows; the handlers     *)
(* change state, and the memos that depend on it are recomputed by the     *)
(* render that follows.                                                    *)

DashboardOutcomes == {"ok", "errorBeforePlants", "errorAtEvents"}

PlantOutcomes == {"ok", "errorBeforePlant", "notFound", "errorAtEvents"}

SortKeys == {"urgentePrimeiro", "recentesPrimeiro", "nomeAZ"}

InitPages(routes, clocks) ==
    /\ route \in routes
    /\ clockIso \in clocks
    /\ loading = (route \in {"dashboard", "planta", "plants"})
    /\ err = Null
    /\ plants = <<>>
    /\ plant = Null
    /\ events = <<>>
    /\ todayIso = IF route = "dashboard" THEN clockIso ELSE Null
    /\ query = <<>>
    /\ statusFilter = "all"
    /\ allCards = <<>>
    /\ filteredCards = <<>>
    /\ nextInfo = IF route = "planta" THEN nextInfoOf(Null, <<>>, clockIso)
                  ELSE Null
    /\ sortBy = "urgentePrimeiro"
    /\ hydrated = FALSE
    /\ visiblePlants = <<>>
    /\ manualError = Null
    /\ editError = Null
    /\ manualDateBr = <<>>
    /\ manualTime = <<>>

\* dashboard: loadAll, run by the mount effect; dbPlants and dbEvents are the
\* rows the two queries return
LoadAll(dbPlants, dbEvents, outcome) ==
    /\ route = "dashboard"
    /\ loading
    /\ plants' = IF outcome = "errorBeforePlants" THEN plants ELSE dbPlants
    /\ events' = IF outcome = "ok" THEN dbEvents ELSE events
    /\ err' = IF outcome = "ok" THEN Null
              ELSE Some("Erro ao carregar dashboard.")
    /\ loading' = FALSE
    /\ allCards' = allCardsOf(plants', events', todayIso)
    /\ filteredCards' = filteredCardsOf(allCards', query, statusFilter)
    /\ UNCHANGED <<dateVars, laterVars, formVars, dbVars, route, clockIso,
                   plant, todayIso, query, statusFilter, nextInfo, sortBy,
                   hydrated, visiblePlants>>

\* dashboard: a filter chip
SetStatusFilter(k) ==
    /\ route = "dashboard"
    /\ statusFilter' = k
    /\ filteredCards' = filteredCardsOf(allCards, query, k)
    /\ UNCHANGED <<dateVars, laterVars, formVars, dbVars, route, clockIso,
                   loading, err, plants, plant, events, todayIso, query,
                   allCards, nextInfo, sortBy, hydrated, visiblePlants>>

\* plant detail: loadAll, run by the mount effect
PlantLoadAll(dbPlant, dbEvents, outcome) ==
    /\ route = "planta"
    /\ loading
    /\ plant' = IF outcome = "errorBeforePlant" THEN plant
                ELSE IF outcome = "notFound" THEN Null
                ELSE dbPlant
    /\ events' = IF outcome = "ok" THEN dbEvents
                 ELSE IF outcome = "notFound" THEN <<>>
                 ELSE events
    /\ err' = IF outcome \in {"ok", "notFound"} THEN Null
              ELSE Some("Erro ao carregar detalhes.")
    /\ loading' = FALSE
    /\ nextInfo' =
         IF /\ plantFrequencyDays(plant') = plantFrequencyDays(plant)
            /\ lastWaterEventOf(events') = lastWaterEventOf(events)
         THEN nextInfo
         ELSE nextInfoOf(plant', events', clockIso)
    /\ UNCHANGED <<dateVars, laterVars, formVars, dbVars, route, clockIso,
                   plants, todayIso, query, statusFilter, allCards,
                   filteredCards, sortBy, hydrated, visiblePlants>>

\* home: the effect that loads the household's plants
HomeLoadPlants(dbPlants, ok) ==
    /\ route = "home"
    /\ ~hydrated
    /\ plants' = IF ok THEN dbPlants ELSE <<>>
    /\ err' = IF ok THEN err ELSE Some("houseErr")
    /\ hydrated' = TRUE
    /\ visiblePlants' =
         visiblePlantsOf(plants', query, statusFilter, sortBy, clockIso)
    /\ UNCHANGED <<dateVars, laterVars, formVars, dbVars, route, clockIso,
                   loading, plant, events, todayIso, query, statusFilter,
                   allCards, filteredCards, nextInfo, sortBy>>

\* home: the sort selector
HomeSetSortBy(sort) ==
    /\ route = "home"
    /\ sortBy' = sort
    /\ visiblePlants' =
         visiblePlantsOf(plants, query, statusFilter, sort, clockIso)
    /\ UNCHANGED <<dateVars, laterVars, formVars, dbVars, route, clockIso,
                   loading, err, plants, plant, events, todayIso, query,
                   statusFilter, allCards, filteredCards, nextInfo, hydrated>>

DbPlant(id, name, freq, interval) ==
    [id |-> id, name |-> name, place |-> Null,
     frequency_days |-> freq, watering_interval_days |-> interval]

DbEvent(plantId, type, date) ==
    [plant_id |-> plantId, event_type |-> type, event_date |-> date]

HomePlant(id, name, freq, last) ==
    [id |-> id, name |-> name, place |-> Null,
     frequency_days |-> freq, last_watered_date_iso |-> last]

-----------------------------------------------------------------------------
(* Specification SpecEval: one plant with any stored frequency and any     *)
(* last watering, evaluated on any day, by the dashboard and by the plant  *)
(* detail page.                                                            *)

EvalStart == <<2026, 2, 10>>

EvalDates == {ShiftDays(EvalStart, k) : k \in 0..EvalSpan}

EvalFreqs == {Null} \cup {Some(f) : f \in (-1)..MaxFreq}

EvalIntervals == {Null, Some(0), Some(5)}

\* the events of the plant, newest first: at most one watering, and maybe a
\* later sun event
EvalEvents(last, withSun) ==
    (IF withSun THEN <<DbEvent(1, "sun", ShiftDays(EvalStart, EvalSpan))>>
     ELSE <<>>)
    \o (IF last = Null THEN <<>> ELSE <<DbEvent(1, "water", last)>>)

InitEval ==
    /\ DateIdle
    /\ LaterIdle
    /\ TablesUntracked
    /\ InitPages({"dashboard", "planta", "home"}, EvalDates)

EvalDashboard ==
    /\ route = "dashboard"
    /\ loading
    /\ \E f \in EvalFreqs, w \in EvalIntervals, last \in EvalDates \cup {Null},
          withSun \in BOOLEAN, outcome \in DashboardOutcomes :
            LoadAll(<<DbPlant(1, <<97>>, f, w)>>, EvalEvents(last, withSun),
                    outcome)

EvalPlantDetail ==
    /\ route = "planta"
    /\ loading
    /\ \E f \in EvalFreqs, w \in EvalIntervals, last \in EvalDates \cup {Null},
          withSun \in BOOLEAN, outcome \in PlantOutcomes :
            PlantLoadAll(DbPlant(1, <<97>>, f, w), EvalEvents(last, withSun),
                         outcome)

EvalHome ==
    /\ route = "home"
    /\ ~hydrated
    /\ \E f \in EvalFreqs, last \in EvalDates \cup {Null}, ok \in BOOLEAN :
            HomeLoadPlants(<<HomePlant(1, <<97>>, f, last)>>, ok)

NextEval ==
    \/ EvalDashboard
    \/ EvalPlantDetail
    \/ EvalHome

SpecEval == InitEval /\ [][NextEval]_vars

-----------------------------------------------------------------------------
(* Specification Spec: a household of up to MaxPlants plants, listed by    *)
(* the dashboard (filteredCards) and by the home page (visiblePlants).     *)

RankToday == <<2026, 3, 2>>

RankNames == {<<66>>, <<97>>}          \* "B", "a"

D1 == <<2026, 3, 1>>

D3 == <<2026, 2, 27>>

D5 == <<2026, 2, 25>>

\* <<frequency, last watering>>: no frequency; never watered; due 2 days
\* ago, 1 day ago, today, in 1 day, in 3 days
DashKinds ==
    {<<Null, Null>>, <<Some(3), Null>>, <<Some(3), D5>>, <<Some(4), D5>>,
     <<Some(3), D3>>, <<Some(4), D3>>, <<Some(4), D1>>}

\* and no frequency, watered 5 days or 1 day ago
HomeKinds == DashKinds \cup {<<Null, D5>>, <<Null, D1>>}

Specimens(kinds) ==
    {[name |-> n, freq |-> k[1], last |-> k[2]] : n \in RankNames, k \in kinds}

SeqsUpTo(S, n) == UNION {[1..k -> S] : k \in 0..n}

DashPlants(sp) ==
    [i \in 1..Len(sp) |-> DbPlant(i, sp[i].name, sp[i].freq, Null)]

\* the last waterings as events, in the order of the query: newest first
DashEvents(sp) ==
    LET all == [i \in 1..Len(sp) |-> DbEvent(i, "water", sp[i].last)]
        on(d) == SelectSeq(all, LAMBDA e : e.event_date = d)
    IN  on(D1) \o on(D3) \o on(D5)

HomePlants(sp) ==
    [i \in 1..Len(sp) |-> HomePlant(i, sp[i].name, sp[i].freq, sp[i].last)]

Init ==
    /\ DateIdle
    /\ LaterIdle
    /\ TablesUntracked
    /\ InitPages({"dashboard", "home"}, {RankToday})

DashboardMount ==
    /\ route = "dashboard"
    /\ loading
    /\ \E sp \in SeqsUpTo(Specimens(DashKinds), MaxPlants),
          outcome \in DashboardOutcomes :
            LoadAll(DashPlants(sp), DashEvents(sp), outcome)

HomeMount ==
    /\ route = "home"
    /\ ~hydrated
    /\ \E sp \in SeqsUpTo(Specimens(HomeKinds), MaxPlants), ok \in BOOLEAN :
            HomeLoadPlants(HomePlants(sp), ok)

Next ==
    \/ DashboardMount
    \/ \E k \in {"all"} \cup StatusKeys : SetStatusFilter(k)
    \/ HomeMount
    \/ \E sort \in SortKeys : HomeSetSortBy(sort)

Spec == Init /\ [][Next]_vars

-----------------------------------------------------------------------------
(* Claims about the date arithmetic (SpecDate).                            *)

\* number of calendar days from t forward to u (negative when u is earlier),
\* counted one day at a time
RECURSIVE CountDays(_, _)
CountDays(t, u) ==
    IF t = u THEN 0
    ELSE IF DateBefore(t, u) THEN CountDays(NextDay(t), u) + 1
    ELSE CountDays(PrevDay(t), u) - 1

\* C6: round trip.  For every date d of the window and every n in
\* -MaxShift .. MaxShift, diffDaysIso(d, addDaysToIso(d, n)) = n.
RoundTripAddDiff ==
    datePc = "diffed" => fwdDiff = Some(nDays)

\* a round trip over a negative count that goes back across a year end
RoundTripWitness ==
    /\ datePc = "diffed"
    /\ nDays < 0
    /\ outIso[1] < dIso[1]
    /\ fwdDiff = Some(nDays)

\* C7: diffDaysIso is antisymmetric, diffDaysIso(a, b) = -diffDaysIso(b, a),
\* and is 0 on equal dates.
DiffAntisymmetric ==
    datePc = "diffed" =>
        /\ fwdDiff[1] = -backDiff[1]
        /\ (outIso = dIso => fwdDiff = Some(0) /\ backDiff = Some(0))

\* two different dates in different months, differenced both ways
DiffAntisymmetricWitness ==
    /\ datePc = "diffed"
    /\ outIso[2] # dIso[2]
    /\ fwdDiff[1] > 0
    /\ backDiff[1] = -fwdDiff[1]

CalendarExamples ==
    /\ addDaysToIso(<<2026, 2, 27>>, 5) = <<2026, 3, 4>>
    /\ addDaysToIso(<<2024, 2, 28>>, 1) = <<2024, 2, 29>>
    /\ diffDaysIso(<<2024, 2, 28>>, <<2024, 3, 1>>) = 2

\* C8: addDaysToIso and diffDaysIso follow the civil calendar across month
\* ends, year ends and leap years: adding n days gives the date n calendar
\* days later, the difference is the number of calendar days between the two
\* dates, and the three worked examples come out as stated.
FollowsCivilCalendar ==
    /\ CalendarExamples
    /\ (datePc \in {"added", "diffed"} =>
            /\ IsCivilDate(outIso)
            /\ outIso = ShiftDays(dIso, nDays))
    /\ (datePc = "diffed" => fwdDiff = Some(CountDays(dIso, outIso)))

\* the leap-year example: from 2024-02-28, two days on is 2024-03-01
FollowsCivilCalendarWitness ==
    /\ datePc = "diffed"
    /\ dIso = <<2024, 2, 28>>
    /\ nDays = 2
    /\ outIso = <<2024, 3, 1>>
    /\ fwdDiff = Some(2)

-----------------------------------------------------------------------------
(* Claims about the schedule evaluator (SpecEval).                         *)
(*   Overdue = atrasada, DueToday = hoje, OnTrack = emDia,                 *)
(*   AwaitingFirstEvent = primeiraRega, NoSchedule = semFrequencia.        *)

\* the dashboard has evaluated the household's single plant
Evaluated == route = "dashboard" /\ ~loading /\ Len(allCards) = 1

\* the plant's stored frequency: frequency_days when it is a number, else
\* watering_interval_days
StoredFrequency(p) ==
    IF p.frequency_days # Null THEN p.frequency_days
    ELSE p.watering_interval_days

HasPositiveFrequency(p) ==
    StoredFrequency(p) # Null /\ StoredFrequency(p)[1] > 0

\* the date of the plant's stored watering, Null when there is none
StoredLastWatering(evs) ==
    LET w == {i \in 1..Len(evs) : evs[i].event_type = "water"}
    IN  IF w = {} THEN Null ELSE evs[CHOOSE i \in w : TRUE].event_date

ScheduledKeys == {"atrasada", "hoje", "emDia"}

\* F = 7, L = 2026-02-10, evaluated on the day it is due, the day after and
\* the day before
ExampleDueToday ==
    computeStatus([frequencyDays    |-> Some(7),
                   lastWaterDateIso |-> <<2026, 2, 10>>,
                   todayIso         |-> <<2026, 2, 17>>])

ExampleOverdue ==
    computeStatus([frequencyDays    |-> Some(7),
                   lastWaterDateIso |-> <<2026, 2, 10>>,
                   todayIso         |-> <<2026, 2, 18>>])

ExampleOnTrack ==
    computeStatus([frequencyDays    |-> Some(7),
                   lastWaterDateIso |-> <<2026, 2, 10>>,
                   todayIso         |-> <<2026, 2, 16>>])

WorkedExamples ==
    /\ ExampleDueToday.status.key = "hoje"
    /\ ExampleDueToday.deltaDays = Some(0)
    /\ ExampleDueToday.nextDateIso = <<2026, 2, 17>>
    /\ ExampleOverdue.status.key = "atrasada"
    /\ ExampleOverdue.deltaDays = Some(-1)
    /\ ExampleOnTrack.status.key = "emDia"
    /\ ExampleOnTrack.deltaDays = Some(1)

\* C1: with a positive frequency F and a last watering L, evaluated on day
\* T: nextDateIso is the date F calendar days after L, deltaDays is the
\* number of calendar days from T to nextDateIso, and the status is atrasada
\* exactly when deltaDays < 0, hoje exactly when it is 0, emDia exactly when
\* it is > 0.  F = 7, L = 2026-02-10 gives hoje/0 on 02-17, atrasada/-1 on
\* 02-18 and emDia/+1 on 02-16.
StatusFollowsDelta ==
    /\ WorkedExamples
    /\ (Evaluated /\ HasPositiveFrequency(plants[1])
            /\ StoredLastWatering(events) # Null =>
          LET c == allCards[1]
              F == StoredFrequency(plants[1])[1]
              L == StoredLastWatering(events)
          IN  /\ c.nextDateIso = ShiftDays(L, F)
              /\ c.deltaDays = Some(CountDays(todayIso, c.nextDateIso))
              /\ (c.status.key = "atrasada" <=> c.deltaDays[1] < 0)
              /\ (c.status.key = "hoje" <=> c.deltaDays[1] = 0)
              /\ (c.status.key = "emDia" <=> c.deltaDays[1] > 0))

\* the dashboard shows the plant of the example one day late
StatusFollowsDeltaWitness ==
    /\ Evaluated
    /\ plants[1].frequency_days = Some(7)
    /\ StoredLastWatering(events) = <<2026, 2, 10>>
    /\ todayIso = <<2026, 2, 18>>
    /\ allCards[1].status.key = "atrasada"
    /\ allCards[1].nextDateIso = <<2026, 2, 17>>
    /\ allCards[1].deltaDays = Some(-1)

\* C2: the status is semFrequencia if and only if the plant's frequency is
\* absent, zero or negative, whatever the last watering is.
NoScheduleIffNoFrequency ==
    Evaluated =>
        (allCards[1].status.key = "semFrequencia"
            <=> ~HasPositiveFrequency(plants[1]))

\* a negative frequency with a watering on record
NoScheduleWitness ==
    /\ Evaluated
    /\ plants[1].frequency_days = Some(-1)
    /\ StoredLastWatering(events) # Null
    /\ allCards[1].lastWaterDateIso # Null
    /\ allCards[1].status.key = "semFrequencia"

\* C3: the status is primeiraRega if and only if the frequency is positive
\* and there is no last watering; the frequency is tested first, so no
\* frequency and no watering is semFrequencia.  The same holds of the home
\* page's getNextWaterInfo and its kind noLast.
AwaitingIffFrequencyAndNoLast ==
    /\ (Evaluated =>
          (allCards[1].status.key = "primeiraRega"
              <=> HasPositiveFrequency(plants[1])
                    /\ StoredLastWatering(events) = Null))
    /\ (route = "home" /\ hydrated /\ Len(visiblePlants) = 1 =>
          LET p == visiblePlants[1]
          IN  homeGetNextWaterInfo(p, clockIso).kind = "noLast"
                <=> /\ p.frequency_days # Null
                    /\ p.frequency_days[1] > 0
                    /\ p.last_watered_date_iso = Null)

\* frequency 5, never watered, a sun event on record
AwaitingWitness ==
    /\ Evaluated
    /\ plants[1].frequency_days = Some(5)
    /\ Len(events) = 1
    /\ events[1].event_type = "sun"
    /\ allCards[1].status.key = "primeiraRega"

\* C4: nextDateIso and deltaDays are both present or both absent, and they
\* are present exactly for atrasada, hoje and emDia.
NextAndDeltaTogether ==
    Evaluated =>
        LET c == allCards[1]
        IN  /\ (c.nextDateIso = Null <=> c.deltaDays = Null)
            /\ (c.nextDateIso # Null <=> c.status.key \in ScheduledKeys)

\* due today: both present, deltaDays 0
NextAndDeltaWitness ==
    /\ Evaluated
    /\ allCards[1].status.key = "hoje"
    /\ allCards[1].nextDateIso = todayIso
    /\ allCards[1].deltaDays = Some(0)

\* C5: the evaluator is total.  Every plant the dashboard has loaded has a
\* card whose status is one of the five, and the plant detail page's
\* getNextWaterInfo always yields one of its three kinds; nothing throws.
EvaluatorTotal ==
    /\ (route = "dashboard" =>
          /\ Len(allCards) = Len(plants)
          /\ \A i \in 1..Len(allCards) : allCards[i].status.key \in StatusKeys)
    /\ (route = "planta" =>
          /\ nextInfo.kind \in {"noFrequency", "noLast", "ok"}
          /\ (nextInfo.kind = "ok" <=> nextInfo.deltaDays # Null))

\* frequency_days 0 hides a positive watering_interval_days
EvaluatorTotalWitness ==
    /\ Evaluated
    /\ plants[1].frequency_days = Some(0)
    /\ plants[1].watering_interval_days = Some(5)
    /\ StoredLastWatering(events) # Null
    /\ allCards[1].status.key = "semFrequencia"

-----------------------------------------------------------------------------
(* Claims about the ranked lists (Spec).                                   *)

FixedStatusOrder ==
    <<"atrasada", "hoje", "emDia", "primeiraRega", "semFrequencia">>

PositionOf(k) == CHOOSE i \in 1..Len(FixedStatusOrder) : FixedStatusOrder[i] = k

\* a holds the elements of b, each as often, in some order
IsRearrangement(a, b) ==
    /\ Len(a) = Len(b)
    /\ \E f \in [1..Len(a) -> 1..Len(a)] :
          /\ \A i, j \in 1..Len(a) : f[i] = f[j] => i = j
          /\ \A i \in 1..Len(a) : a[i] = b[f[i]]

\* C9: the dashboard's list is in the status order atrasada, hoje, emDia,
\* primeiraRega, semFrequencia: no card of a later status stands before a
\* card of an earlier one; with no filter the list holds every card.
RankedByStatus ==
    route = "dashboard" =>
        /\ \A i, j \in 1..Len(filteredCards) :
              i < j => PositionOf(filteredCards[i].status.key)
                         <= PositionOf(filteredCards[j].status.key)
        /\ (statusFilter = "all" => IsRearrangement(filteredCards, allCards))

\* a plant without frequency loaded before an overdue one, listed after it
RankedByStatusWitness ==
    /\ route = "dashboard"
    /\ statusFilter = "all"
    /\ Len(allCards) = 2
    /\ allCards[1].status.key = "semFrequencia"
    /\ allCards[2].status.key = "atrasada"
    /\ filteredCards = <<allCards[2], allCards[1]>>

\* the dashboard's list, inside one status: by deltaDays ascending where
\* there is one, by name where there is none
DashboardRankedWithinStatus ==
    route = "dashboard" =>
        \A i, j \in 1..Len(filteredCards) :
            LET a == filteredCards[i]
                b == filteredCards[j]
            IN  i < j /\ a.status.key = b.status.key =>
                  /\ (a.deltaDays # Null /\ b.deltaDays # Null =>
                        a.deltaDays[1] <= b.deltaDays[1])
                  /\ (a.deltaDays = Null /\ b.deltaDays = Null =>
                        localeCompare(a.plant.name, b.plant.name) <= 0)

\* the status the evaluator gives a plant of the home page
HomeStatusKey(p) ==
    LET info == homeGetNextWaterInfo(p, clockIso)
    IN  IF info.kind = "noFrequency" THEN "semFrequencia"
        ELSE IF info.kind = "noLast" THEN "primeiraRega"
        ELSE IF info.deltaDays[1] < 0 THEN "atrasada"
        ELSE IF info.deltaDays[1] = 0 THEN "hoje"
        ELSE "emDia"

HomeDelta(p) == homeGetNextWaterInfo(p, clockIso).deltaDays

HomeRankedByUrgency == route = "home" /\ sortBy = "urgentePrimeiro"

\* the home page's list, inside one status that has deltaDays
HomeRankedByDelta ==
    HomeRankedByUrgency =>
        \A i, j \in 1..Len(visiblePlants) :
            LET a == visiblePlants[i]
                b == visiblePlants[j]
            IN  i < j /\ HomeStatusKey(a) = HomeStatusKey(b)
                    /\ HomeDelta(a) # Null /\ HomeDelta(b) # Null =>
                  HomeDelta(a)[1] <= HomeDelta(b)[1]

\* the home page's list, inside one status without deltaDays: by name only
HomeNoDeltaByNameOnly ==
    HomeRankedByUrgency =>
        \A i, j \in 1..Len(visiblePlants) :
            LET a == visiblePlants[i]
                b == visiblePlants[j]
            IN  i < j /\ HomeStatusKey(a) = HomeStatusKey(b)
                    /\ HomeDelta(a) = Null /\ HomeDelta(b) = Null =>
                  localeCompare(a.name, b.name) <= 0

\* days since the last watering; a plant never watered counts as 10000
DaysSinceWatering(p) ==
    IF p.last_watered_date_iso = Null THEN 10000
    ELSE CountDays(p.last_watered_date_iso, clockIso)

\* the home page's list, inside one status without deltaDays: by days since
\* the last watering, longest first, and by name among equals
HomeNoDeltaByDaysSince ==
    HomeRankedByUrgency =>
        \A i, j \in 1..Len(visiblePlants) :
            LET a == visiblePlants[i]
                b == visiblePlants[j]
            IN  i < j /\ HomeStatusKey(a) = HomeStatusKey(b)
                    /\ HomeDelta(a) = Null /\ HomeDelta(b) = Null =>
                  /\ DaysSinceWatering(a) >= DaysSinceWatering(b)
                  /\ (DaysSinceWatering(a) = DaysSinceWatering(b) =>
                        localeCompare(a.name, b.name) <= 0)

HomeDaysSinceWitness ==
    /\ HomeRankedByUrgency
    /\ Len(visiblePlants) = 2
    /\ HomeStatusKey(visiblePlants[1]) = "semFrequencia"
    /\ HomeStatusKey(visiblePlants[2]) = "semFrequencia"
    /\ visiblePlants[1].last_watered_date_iso = D5
    /\ visiblePlants[2].last_watered_date_iso = D1
    /\ localeCompare(visiblePlants[1].name, visiblePlants[2].name) > 0

-----------------------------------------------------------------------------
(* Claims about the ranking key and its determinism (Spec).                *)

\* the one-to-one maps of 1..n onto itself
Bijections(n) ==
    {f \in [1..n -> 1..n] : \A i, j \in 1..n : f[i] = f[j] => i = j}

\* the rows of ps in every order
Orderings(ps) ==
    {[i \in 1..Len(ps) |-> ps[f[i]]] : f \in Bijections(Len(ps))}

\* the dashboard has loaded the household
DashboardLoaded == route = "dashboard" /\ ~loading

\* C11: the three-level key (status priority, deltaDays, name) is a total
\* order over the plants of the list: the comparator never returns 0 for two
\* distinct plants, and the ranked list is the same whatever the order in
\* which the query returned the same plants.
RankingKeyTotalOrder ==
    DashboardLoaded =>
        /\ \A i, j \in 1..Len(allCards) :
              i # j => compareCards(allCards[i], allCards[j]) # 0
        /\ \A ps \in Orderings(plants) :
              filteredCardsOf(allCardsOf(ps, events, todayIso), query,
                              statusFilter) = filteredCards

-----------------------------------------------------------------------------
(* Specification SpecClock: a page stays open while the civil date moves   *)
(* on.  The dashboard can be reloaded ("Recarregar"); on the home page the *)
(* clock may pass midnight in the middle of the pass that computes         *)
(* visiblePlants, whose every statusForPlant call reads the clock itself.  *)

ClockDates == {ShiftDays(RankToday, k) : k \in 0..MaxDaysOpen}

ClockEnd == ShiftDays(RankToday, MaxDaysOpen)

\* <<frequency, last watering>>: due tomorrow, due today
ClockKinds == {<<Some(4), D3>>, <<Some(3), D3>>}

\* the filters pressed while the clock moves
ClockDashboardFilters == {"all", "hoje"}

ClockHomeFilters == {"all", "urgente"}

\* the plants of the household: one name, every kind
ClockSpecimens ==
    {[name |-> <<97>>, freq |-> k[1], last |-> k[2]] : k \in ClockKinds}

\* the rows of ps whose index is in keep, from index i on
RECURSIVE pickRows(_, _, _)
pickRows(ps, keep, i) ==
    IF i > Len(ps) THEN <<>>
    ELSE (IF i \in keep THEN <<ps[i]>> ELSE <<>>) \o pickRows(ps, keep, i + 1)

\* visiblePlants computed by a pass that starts on nowIso, midnight passing
\* after the filter has tested the first k plants (k = Len(ps): no midnight);
\* the sort runs on the date the filter ended on
visiblePlantsAcross(ps, qry, sf, sort, nowIso, k) ==
    LET q      == toLowerCase(trim(qry))
        at(i)  == IF i <= k THEN nowIso ELSE NextDay(nowIso)
        keep   == {i \in 1..Len(ps) : matchesPlant(ps[i], q, sf, at(i))}
        endIso == IF k < Len(ps) THEN NextDay(nowIso) ELSE nowIso
    IN  sortPlants(pickRows(ps, keep, 1), sort, endIso)

\* midnight in Brasilia; nothing re-renders on it
Tick ==
    /\ route \in {"dashboard", "home"}
    /\ clockIso # ClockEnd
    /\ clockIso' = NextDay(clockIso)
    /\ UNCHANGED <<dateVars, laterVars, formVars, dbVars, route, loading, err,
                   plants, plant, events, todayIso, query, statusFilter,
                   allCards, filteredCards, nextInfo, sortBy, hydrated,
                   visiblePlants>>

\* dashboard: "Recarregar" calls loadAll, which starts with setErr(null) and
\* setLoading(true); LoadAll is the rest of it
Reload ==
    /\ route = "dashboard"
    /\ ~loading
    /\ err' = Null
    /\ loading' = TRUE
    /\ UNCHANGED <<dateVars, laterVars, formVars, dbVars, route, clockIso,
                   plants, plant, events, todayIso, query, statusFilter,
                   allCards, filteredCards, nextInfo, sortBy, hydrated,
                   visiblePlants>>

\* home: the effect that loads the plants, and the pass that follows it
HomeLoadPlantsAcross(dbPlants, ok, k) ==
    /\ route = "home"
    /\ ~hydrated
    /\ plants' = IF ok THEN dbPlants ELSE <<>>
    /\ k <= Len(plants')
    /\ k < Len(plants') => clockIso # ClockEnd
    /\ err' = IF ok THEN err ELSE Some("houseErr")
    /\ hydrated' = TRUE
    /\ visiblePlants' =
         visiblePlantsAcross(plants', query, statusFilter, sortBy, clockIso, k)
    /\ clockIso' = IF k < Len(plants') THEN NextDay(clockIso) ELSE clockIso
    /\ UNCHANGED <<dateVars, laterVars, formVars, dbVars, route, loading,
                   plant, events, todayIso, query, statusFilter, allCards,
                   filteredCards, nextInfo, sortBy>>

\* home: the status selector, and the pass that follows it
HomeSetStatusFilterAcross(sf, k) ==
    /\ route = "home"
    /\ hydrated
    /\ k <= Len(plants)
    /\ k < Len(plants) => clockIso # ClockEnd
    /\ statusFilter' = sf
    /\ visiblePlants' =
         visiblePlantsAcross(plants, query, sf, sortBy, clockIso, k)
    /\ clockIso' = IF k < Len(plants) THEN NextDay(clockIso) ELSE clockIso
    /\ UNCHANGED <<dateVars, laterVars, formVars, dbVars, route, loading, err,
                   plants, plant, events, todayIso, query, allCards,
                   filteredCards, nextInfo, sortBy, hydrated>>

InitClock ==
    /\ DateIdle
    /\ LaterIdle
    /\ TablesUntracked
    /\ InitPages({"dashboard", "home"}, {RankToday})

ClockDashboardLoad ==
    /\ route = "dashboard"
    /\ loading
    /\ \E sp \in SeqsUpTo(ClockSpecimens, MaxPlants),
          outcome \in DashboardOutcomes :
            LoadAll(DashPlants(sp), DashEvents(sp), outcome)

ClockHomeLoad ==
    /\ route = "home"
    /\ ~hydrated
    /\ \E sp \in SeqsUpTo(ClockSpecimens, MaxPlants), ok \in BOOLEAN,
          k \in 0..MaxPlants :
            HomeLoadPlantsAcross(HomePlants(sp), ok, k)

NextClock ==
    \/ Tick
    \/ ClockDashboardLoad
    \/ Reload
    \/ \E k \in ClockDashboardFilters : SetStatusFilter(k)
    \/ ClockHomeLoad
    \/ \E sf \in ClockHomeFilters, k \in 0..MaxPlants :
          HomeSetStatusFilterAcross(sf, k)

SpecClock == InitClock /\ [][NextClock]_vars

-----------------------------------------------------------------------------
(* Claims about the clock (SpecClock).                                     *)

\* C13: within one pass every plant of the list is evaluated against the
\* same today, even when midnight passes during the pass: the dashboard's
\* cards are all computed against one date, and the home page's list is the
\* list that some single date gives.
SameTodayInOnePass ==
    /\ (DashboardLoaded => allCards = allCardsOf(plants, events, todayIso))
    /\ (route = "home" /\ hydrated =>
          \E t \in ClockDates :
              visiblePlants =
                  visiblePlantsOf(plants, query, statusFilter, sortBy, t))

\* the dashboard renders: a load completes or a filter chip is pressed
DashboardRenders ==
    /\ route = "dashboard"
    /\ ~loading'
    /\ (loading \/ statusFilter' # statusFilter)

\* C14: results are never stale.  Whenever the dashboard completes a load or
\* re-renders its list, the cards shown are those computed against the
\* current civil date.
NeverStale ==
    [][DashboardRenders =>
         allCards' = allCardsOf(plants', events', clockIso')]_vars

-----------------------------------------------------------------------------
(* The events queries.  created_at is the position of the row in the       *)
(* table.                                                                  *)

\* row i comes before row j under
\* .order("event_date", desc).order("created_at", desc)
eventBefore(table, i, j) ==
    \/ DateBefore(table[j].event_date, table[i].event_date)
    \/ table[i].event_date = table[j].event_date /\ i > j

\* the rows whose index is in keep, in the order of the query
RECURSIVE orderEvents(_, _)
orderEvents(table, keep) ==
    IF keep = {} THEN <<>>
    ELSE LET first == CHOOSE i \in keep :
                          \A j \in keep \ {i} : eventBefore(table, i, j)
         IN  <<table[first]>> \o orderEvents(table, keep \ {first})

\* .limit(n)
limitRows(rows, n) == SubSeq(rows, 1, IF Len(rows) < n THEN Len(rows) ELSE n)

\* dashboard loadAll: the household's events, newest first, at most the limit
dashboardEventsQuery(table) ==
    limitRows(orderEvents(table, 1..Len(table)), DashboardEventsLimit)

\* plant detail loadAll: the plant's events, newest first, at most the limit
plantEventsQuery(table, plantId) ==
    limitRows(orderEvents(table, {i \in 1..Len(table) :
                                     table[i].plant_id = plantId}),
              PlantEventsLimit)

\* .order("created_at", desc) of the plants query
plantsQuery(table) == [i \in 1..Len(table) |-> table[Len(table) + 1 - i]]

-----------------------------------------------------------------------------
(* Specification SpecEvents: a household of two plants whose events are    *)
(* stored one after the other; the dashboard and the plant detail page of  *)
(* plant 1 load them through their queries.                                *)

EventTypes == {"water", "sun"}

EventDates == {D3, D1}

EventsPlants == <<DbPlant(1, <<97>>, Some(3), Null),
                  DbPlant(2, <<66>>, Some(3), Null)>>

InitEvents ==
    /\ DateIdle
    /\ LaterIdle
    /\ InitPages({"dashboard", "planta"}, {RankToday})
    /\ plantsTable = EventsPlants
    /\ eventsTable = <<>>

\* an insert into events (waterNow, confirmBatch, addManualWatering, by this
\* or another member of the household), before the page loads
StoreEvent(plantId, type, date) ==
    /\ loading
    /\ Len(eventsTable) < MaxEvents
    /\ eventsTable' = Append(eventsTable, DbEvent(plantId, type, date))
    /\ UNCHANGED <<dateVars, laterVars, pageVars, formVars, plantsTable>>

EventsDashboardLoad ==
    /\ route = "dashboard"
    /\ loading
    /\ \E outcome \in DashboardOutcomes :
          LoadAll(plantsQuery(plantsTable), dashboardEventsQuery(eventsTable),
                  outcome)

EventsPlantLoad ==
    /\ route = "planta"
    /\ loading
    /\ \E outcome \in PlantOutcomes \ {"notFound"} :
          PlantLoadAll(plantsTable[1], plantEventsQuery(eventsTable, 1),
                       outcome)

\* plant detail: loadAll called again; it starts with setErr(null) and
\* setLoading(true)
PlantReload ==
    /\ route = "planta"
    /\ ~loading
    /\ err' = Null
    /\ loading' = TRUE
    /\ UNCHANGED <<dateVars, laterVars, formVars, dbVars, route, clockIso,
                   plants, plant, events, todayIso, query, statusFilter,
                   allCards, filteredCards, nextInfo, sortBy, hydrated,
                   visiblePlants>>

NextEvents ==
    \/ \E plantId \in 1..2, type \in EventTypes, date \in EventDates :
          StoreEvent(plantId, type, date)
    \/ EventsDashboardLoad
    \/ Reload
    \/ EventsPlantLoad
    \/ PlantReload

SpecEvents == InitEvents /\ [][NextEvents]_vars

-----------------------------------------------------------------------------
(* Claims about the last watering (SpecEvents).                            *)

\* the greatest event_date among the stored water events of the plant, Null
\* when it has none
GreatestWaterDate(table, plantId) ==
    LET dates == {table[i].event_date : i \in {j \in 1..Len(table) :
                      table[j].plant_id = plantId
                      /\ table[j].event_type = "water"}}
    IN  IF dates = {} THEN Null
        ELSE CHOOSE d \in dates : \A e \in dates : ~DateBefore(d, e)

\* the page shows a load that went through, of the rows now stored
ShowsStoredRows == ~loading /\ err = Null

\* C15: the last-watering date handed to the evaluator is the greatest
\* event_date among the plant's stored water events, and is absent only when
\* the plant has none, whatever other events the household has.
LastWateringIsGreatest ==
    /\ (route = "dashboard" /\ ShowsStoredRows =>
          \A i \in 1..Len(allCards) :
              allCards[i].lastWaterDateIso =
                  GreatestWaterDate(eventsTable, allCards[i].plant.id))
    /\ (route = "planta" /\ ShowsStoredRows /\ plant # Null =>
          (IF lastWaterEventOf(events) = Null THEN Null
           ELSE lastWaterEventOf(events).event_date)
              = GreatestWaterDate(eventsTable, plant.id))

-----------------------------------------------------------------------------
(* Specification SpecTokens: the dashboard evaluates one plant whose water *)
(* event carries any token of the form d{4}-d{2}-d{2}, a civil date or     *)
(* not.                                                                    *)

\* 2026-MM-DD with MM in 02, 04, 12, 13 and DD in 00, 01, 28 .. 32
DateTokens == {2026} \X {2, 4, 12, 13} \X {0, 1, 28, 29, 30, 31, 32}

InitTokens ==
    /\ DateIdle
    /\ LaterIdle
    /\ TablesUntracked
    /\ InitPages({"dashboard"}, {RankToday})

TokensLoad ==
    /\ route = "dashboard"
    /\ loading
    /\ \E f \in 1..MaxFreq, tok \in DateTokens, outcome \in DashboardOutcomes :
          LoadAll(<<DbPlant(1, <<97>>, Some(f), Null)>>,
                  <<DbEvent(1, "water", tok)>>, outcome)

NextTokens == TokensLoad

SpecTokens == InitTokens /\ [][NextTokens]_vars

-----------------------------------------------------------------------------
(* Claims about date tokens that are no calendar date (SpecTokens).        *)

\* C16: when the last-watering token is not a date of the calendar (such as
\* 2026-02-31), the schedule computation signals an error: it returns none
\* of the five statuses, no next-due date and no deltaDays.
InvalidDateSignalsError ==
    Evaluated /\ StoredLastWatering(events) # Null
              /\ ~IsCivilDate(StoredLastWatering(events)) =>
        /\ allCards[1].status.key \notin StatusKeys
        /\ allCards[1].nextDateIso = Null
        /\ allCards[1].deltaDays = Null

-----------------------------------------------------------------------------
(* Numbers read from text.  A number is the record of what the handlers    *)
(* test: NaN or not, its sign, its whole part, and whether a fraction      *)
(* other than zero follows.                                                *)

JsNumber(neg, whole, frac) ==
    [nan |-> FALSE, neg |-> neg, whole |-> whole, frac |-> frac]

NaN == [nan |-> TRUE, neg |-> FALSE, whole |-> 0, frac |-> FALSE]

\* the longest prefix of digits
RECURSIVE digitPrefix(_)
digitPrefix(str) ==
    IF str # <<>> /\ Head(str) \in 48..57
    THEN <<Head(str)>> \o digitPrefix(Tail(str)) ELSE <<>>

\* the value of a string of digits, 0 for the empty one
RECURSIVE digitsValue(_)
digitsValue(ds) ==
    IF ds = <<>> THEN 0
    ELSE 10 * digitsValue(SubSeq(ds, 1, Len(ds) - 1)) + (ds[Len(ds)] - 48)

\* parseInt(str, 10): leading blanks, a sign, then digits as far as they go
parseInt(str) ==
    LET t  == trimStart(str)
        u  == IF t # <<>> /\ Head(t) \in {43, 45} THEN Tail(t) ELSE t
        ds == digitPrefix(u)
    IN  IF ds = <<>> THEN NaN
        ELSE JsNumber(t # <<>> /\ Head(t) = 45, digitsValue(ds), FALSE)

\* Number(str) on blanks, signs, digits and one decimal point; any other
\* character makes it NaN
Number(str) ==
    LET t      == trim(str)
        neg    == t # <<>> /\ Head(t) = 45
        u      == IF t # <<>> /\ Head(t) \in {43, 45} THEN Tail(t) ELSE t
        whole  == digitPrefix(u)
        after  == SubSeq(u, Len(whole) + 1, Len(u))
        frac   == IF after = <<>> THEN <<>> ELSE Tail(after)
    IN  IF t = <<>> THEN JsNumber(FALSE, 0, FALSE)
        ELSE IF after = <<>>
        THEN (IF whole = <<>> THEN NaN
              ELSE JsNumber(neg, digitsValue(whole), FALSE))
        ELSE IF Head(after) = 46 /\ digitPrefix(frac) = frac
                /\ (whole # <<>> \/ frac # <<>>)
        THEN JsNumber(neg, digitsValue(whole),
                      \E i \in 1..Len(frac) : frac[i] # 48)
        ELSE NaN

\* n <= 0
notPositive(n) == ~n.nan /\ (n.neg \/ (n.whole = 0 /\ ~n.frac))

\* Math.max(0, n)
maxWithZero(n) ==
    IF n.nan THEN NaN ELSE IF n.neg THEN JsNumber(FALSE, 0, FALSE) ELSE n

\* Math.floor(n), of a finite n
floor(n) ==
    IF n.neg THEN -(n.whole + (IF n.frac THEN 1 ELSE 0)) ELSE n.whole

-----------------------------------------------------------------------------
(* Plants page (addPlant) and plant detail page (saveEdit).                *)

\* plants page: loadAll, run by the mount effect; the household is found
\* and the plants query succeeds or fails
PlantsLoadAll(ok) ==
    /\ route = "plants"
    /\ loading
    /\ plants' = IF ok THEN plantsQuery(plantsTable) ELSE plants
    /\ err' = IF ok THEN Null ELSE Some("Erro ao carregar plantas.")
    /\ loading' = FALSE
    /\ UNCHANGED <<dateVars, laterVars, formVars, dbVars, route, clockIso,
                   plant, events, todayIso, query, statusFilter, allCards,
                   filteredCards, nextInfo, sortBy, hydrated, visiblePlants>>

\* plants page: addPlant with the form's name and frequencyDays; Number.isFinite
\* is false of null and of NaN
addPlant(name, frequencyDays, inserted) ==
    LET trimmed == trim(name)
        freq    == IF trim(frequencyDays) = <<>> THEN NaN
                   ELSE maxWithZero(parseInt(trim(frequencyDays)))
        data    == [id |-> Len(plantsTable) + 1,
                    name |-> trimmed,
                    place |-> Null,
                    frequency_days |-> IF ~freq.nan THEN Some(floor(freq))
                                       ELSE Null,
                    watering_interval_days |-> Null]
    IN  /\ route = "plants"
        /\ ~loading
        /\ Len(plantsTable) < MaxPlants
        /\ IF trimmed = <<>>
           THEN /\ err' = Some("Informe o nome da planta.")
                /\ UNCHANGED <<plants, plantsTable>>
           ELSE IF inserted
           THEN /\ err' = Null
                /\ plantsTable' = Append(plantsTable, data)
                /\ plants' = <<data>> \o plants
           ELSE /\ err' = Some("Erro ao adicionar planta.")
                /\ UNCHANGED <<plants, plantsTable>>
        /\ UNCHANGED <<dateVars, laterVars, formVars, eventsTable, route,
                       clockIso, loading, plant, events, todayIso, query,
                       statusFilter, allCards, filteredCards, nextInfo, sortBy,
                       hydrated, visiblePlants>>

\* plant detail: saveEdit with the form's editName and editFrequency.  The
\* update or the insert of the config_change event may fail; on success it
\* ends in loadAll, which PlantLoadAll completes
saveEdit(editName, editFrequency, outcome) ==
    LET nameTrim == trim(editName)
        freqTrim == trim(editFrequency)
        n        == Number(freqTrim)
        freq     == IF freqTrim = <<>> THEN Null ELSE Some(floor(n))
        updated  == [plantsTable EXCEPT
                        ![CHOOSE i \in 1..Len(plantsTable) :
                              plantsTable[i].id = plant.id] =
                            [@ EXCEPT !.name = nameTrim,
                                      !.frequency_days = freq]]
    IN  /\ route = "planta"
        /\ ~loading
        /\ plant # Null
        /\ Len(eventsTable) < MaxEvents
        /\ IF nameTrim = <<>>
           THEN /\ editError' = Some("O nome da planta nao pode ficar vazio.")
                /\ UNCHANGED <<err, loading, dbVars>>
           ELSE IF freqTrim # <<>> /\ (n.nan \/ notPositive(n))
           THEN /\ editError' = Some("Frequencia invalida.")
                /\ UNCHANGED <<err, loading, dbVars>>
           ELSE /\ editError' = Null
                /\ err' = IF outcome = "ok" THEN Null
                          ELSE Some("Erro ao salvar alteracoes.")
                /\ plantsTable' = IF outcome = "updateError" THEN plantsTable
                                  ELSE updated
                /\ eventsTable' =
                     IF outcome = "ok"
                     THEN Append(eventsTable,
                                 DbEvent(plant.id, "config_change", clockIso))
                     ELSE eventsTable
                /\ loading' = (outcome = "ok")
        /\ UNCHANGED <<dateVars, laterVars, manualError, manualDateBr,
                       manualTime, route, clockIso, plants, plant, events,
                       todayIso, query, statusFilter, allCards, filteredCards,
                       nextInfo, sortBy, hydrated, visiblePlants>>

-----------------------------------------------------------------------------
(* Specification SpecForms: plants are created on the plants page and      *)
(* plant 1 is edited on the plant detail page, with any short text in the  *)
(* frequency field.                                                        *)

\* "-", ".", "0", "5", "a"
FrequencyAlphabet == {45, 46, 48, 53, 97}

FrequencyTexts == SeqsUpTo(FrequencyAlphabet, MaxTextLen)

\* "a" and " "
NameTexts == {<<97>>, <<32>>}

InitForms ==
    /\ DateIdle
    /\ LaterIdle
    /\ InitPages({"plants", "planta"}, {RankToday})
    /\ plantsTable = <<DbPlant(1, <<97>>, Some(3), Null)>>
    /\ eventsTable = <<>>

NextForms ==
    \/ \E ok \in BOOLEAN : PlantsLoadAll(ok)
    \/ /\ route = "plants"
       /\ ~loading
       /\ \E name \in NameTexts, frequencyDays \in FrequencyTexts,
             inserted \in BOOLEAN :
               addPlant(name, frequencyDays, inserted)
    \/ /\ route = "planta"
       /\ loading
       /\ \E outcome \in PlantOutcomes \ {"notFound"} :
             PlantLoadAll(plantsTable[1], plantEventsQuery(eventsTable, 1),
                          outcome)
    \/ /\ route = "planta"
       /\ ~loading
       /\ \E editName \in NameTexts, editFrequency \in FrequencyTexts,
             outcome \in {"ok", "updateError", "eventError"} :
               saveEdit(editName, editFrequency, outcome)

SpecForms == InitForms /\ [][NextForms]_vars

-----------------------------------------------------------------------------
(* Plant detail page: the manual watering form.                            *)

\* /^(\d{2})\/(\d{2})\/(\d{4})$/ on the trimmed text
matchesBrDate(t) ==
    /\ Len(t) = 10
    /\ t[3] = 47 /\ t[6] = 47
    /\ \A i \in {1, 2, 4, 5, 7, 8, 9, 10} : t[i] \in 48..57

\* the day limit taken from February of every year as if it were a leap year
parseBrDateToIso_FebruaryAlways29(br) ==
    LET t    == trim(br)
        dd   == digitsValue(SubSeq(t, 1, 2))
        mm   == digitsValue(SubSeq(t, 4, 5))
        yyyy == digitsValue(SubSeq(t, 7, 10))
    IN  IF ~matchesBrDate(t) THEN Null
        ELSE IF yyyy < 1900 \/ yyyy > 3000 THEN Null
        ELSE IF mm < 1 \/ mm > 12 THEN Null
        ELSE LET daysInMonth == DateFromTime(DateUTC(2024, mm, 0))
             IN  IF dd < 1 \/ dd > daysInMonth THEN Null
                 ELSE <<yyyy, mm, dd>>

\* the result is the token of the zero-padded text YYYY-MM-DD
parseBrDateToIso(br) ==
    LET t    == trim(br)
        dd   == digitsValue(SubSeq(t, 1, 2))
        mm   == digitsValue(SubSeq(t, 4, 5))
        yyyy == digitsValue(SubSeq(t, 7, 10))
    IN  IF ~matchesBrDate(t) THEN Null
        ELSE IF yyyy < 1900 \/ yyyy > 3000 THEN Null
        ELSE IF mm < 1 \/ mm > 12 THEN Null
        ELSE LET daysInMonth == DateFromTime(DateUTC(yyyy, mm, 0))
             IN  IF dd < 1 \/ dd > daysInMonth THEN Null
                 ELSE <<yyyy, mm, dd>>

isValidTimeHHmm(text) ==
    LET t == trim(text)
    IN  /\ Len(t) = 5
        /\ t[3] = 58
        /\ \A i \in {1, 2, 4, 5} : t[i] \in 48..57
        /\ digitsValue(SubSeq(t, 1, 2)) \in 0..23
        /\ digitsValue(SubSeq(t, 4, 5)) \in 0..59

\* onChange of the date field
SetManualDateBr(text) ==
    /\ route = "planta"
    /\ ~loading
    /\ plant # Null
    /\ manualDateBr' = text
    /\ UNCHANGED <<dateVars, laterVars, pageVars, dbVars, manualError,
                   editError, manualTime>>

\* onChange of the time field
SetManualTime(text) ==
    /\ route = "planta"
    /\ ~loading
    /\ plant # Null
    /\ manualTime' = text
    /\ UNCHANGED <<dateVars, laterVars, pageVars, dbVars, manualError,
                   editError, manualDateBr>>

\* addManualWatering; the insert may fail; on success it ends in loadAll,
\* which PlantLoadAll completes
addManualWatering(inserted) ==
    LET iso == parseBrDateToIso(manualDateBr)
    IN  /\ route = "planta"
        /\ ~loading
        /\ plant # Null
        /\ Len(eventsTable) < MaxManual
        /\ IF iso = Null
           THEN /\ manualError' = Some("Data invalida. Use dd/mm/aaaa.")
                /\ UNCHANGED <<err, loading, eventsTable>>
           ELSE IF ~isValidTimeHHmm(manualTime)
           THEN /\ manualError' = Some("Hora invalida. Use HH:mm.")
                /\ UNCHANGED <<err, loading, eventsTable>>
           ELSE /\ manualError' = Null
                /\ err' = IF inserted THEN Null
                          ELSE Some("Erro ao registrar rega manual.")
                /\ eventsTable' =
                     IF inserted
                     THEN Append(eventsTable, DbEvent(plant.id, "water", iso))
                     ELSE eventsTable
                /\ loading' = inserted
        /\ UNCHANGED <<dateVars, laterVars, editError, manualDateBr, manualTime,
                       plantsTable, route, clockIso, plants, plant, events,
                       todayIso, query, statusFilter, allCards, filteredCards,
                       nextInfo, sortBy, hydrated, visiblePlants>>

-----------------------------------------------------------------------------
(* Specification SpecManual: on the detail page of plant 1 the two fields  *)
(* of the manual watering form are filled in and the form is saved.        *)

TwoDigits(n) == <<48 + (n \div 10), 48 + (n % 10)>>

BrDateText(d, m, y) ==
    TwoDigits(d) \o <<47>> \o TwoDigits(m) \o <<47>> \o TwoDigits(y \div 100)
        \o TwoDigits(y % 100)

\* dates of the calendar, the last of them between blanks
RealDateTexts ==
    {BrDateText(29, 2, 2024), BrDateText(29, 2, 2000),
     BrDateText(1, 1, 1900), <<32>> \o BrDateText(31, 12, 3000) \o <<32>>}

\* days and months that do not exist, years out of range, other forms
OtherDateTexts ==
    {BrDateText(29, 2, 2026), BrDateText(29, 2, 1900),
     BrDateText(31, 4, 2026), BrDateText(0, 1, 2026),
     BrDateText(32, 1, 2026), BrDateText(1, 0, 2026),
     BrDateText(1, 13, 2026), BrDateText(31, 12, 1899),
     BrDateText(1, 1, 3001), Tail(BrDateText(1, 2, 2026)),
     <<50, 48, 50, 54, 45, 48, 50, 45, 48, 49>>, <<>>}

\* "23:59", "24:00", "12:60", "9:30"
TimeTexts ==
    {TwoDigits(23) \o <<58>> \o TwoDigits(59),
     TwoDigits(24) \o <<58>> \o TwoDigits(0),
     TwoDigits(12) \o <<58>> \o TwoDigits(60),
     <<57, 58, 51, 48>>}

InitManual ==
    /\ DateIdle
    /\ LaterIdle
    /\ InitPages({"planta"}, {RankToday})
    /\ plantsTable = <<DbPlant(1, <<97>>, Some(3), Null)>>
    /\ eventsTable = <<>>

ManualPlantLoad ==
    /\ route = "planta"
    /\ loading
    /\ \E outcome \in PlantOutcomes \ {"notFound"} :
          PlantLoadAll(plantsTable[1], plantEventsQuery(eventsTable, 1),
                       outcome)

NextManual ==
    \/ ManualPlantLoad
    \/ \E text \in RealDateTexts \cup OtherDateTexts : SetManualDateBr(text)
    \/ \E text \in TimeTexts : SetManualTime(text)
    \/ \E inserted \in BOOLEAN : addManualWatering(inserted)

SpecManual == InitManual /\ [][NextManual]_vars

-----------------------------------------------------------------------------
(* Claims about the manual watering form (SpecManual).                     *)

\* the date a text of the form dd/mm/yyyy names, read off its digits
EnteredDate(text) ==
    LET t == trim(text)
        v(i) == t[i] - 48
    IN  <<1000 * v(7) + 100 * v(8) + 10 * v(9) + v(10),
          10 * v(4) + v(5), 10 * v(1) + v(2)>>

\* a real calendar date in dd/mm/yyyy form, year 1900-3000
IsRealBrDate(text) ==
    /\ matchesBrDate(trim(text))
    /\ IsCivilDate(EnteredDate(text))
    /\ EnteredDate(text)[1] \in 1900..3000

\* a valid 24-hour HH:mm
IsClockTime(text) ==
    LET t == trim(text)
    IN  \E h \in 0..23, mi \in 0..59 :
            t = TwoDigits(h) \o <<58>> \o TwoDigits(mi)

\* the form of a loaded plant is saved: the page is up and the fields are
\* not being typed in
ManualSaved ==
    /\ route = "planta"
    /\ ~loading
    /\ plant # Null
    /\ UNCHANGED <<manualDateBr, manualTime>>

\* C18: saving the manual watering form stores an event only when the date
\* field holds a real calendar date in dd/mm/yyyy form with a year in
\* 1900-3000 and the time field a valid 24-hour HH:mm, and then it stores one
\* water event of the plant dated exactly the date entered; with any other
\* date or time it stores nothing and sets manualError.
ManualWateringValidated ==
    [][ManualSaved =>
         IF IsRealBrDate(manualDateBr) /\ IsClockTime(manualTime)
         THEN \/ eventsTable' = eventsTable
              \/ eventsTable' =
                   Append(eventsTable,
                          DbEvent(plant.id, "water", EnteredDate(manualDateBr)))
         ELSE eventsTable' = eventsTable /\ manualError' # Null]_vars

\* a 29 February of a leap year was stored, and afterwards a 29 February of
\* a common year was refused
ManualWateringWitness ==
    /\ eventsTable = <<DbEvent(1, "water", <<2024, 2, 29>>)>>
    /\ manualDateBr = BrDateText(29, 2, 2026)
    /\ manualError # Null

-----------------------------------------------------------------------------
(* Claims about the stored frequency (SpecForms).                          *)

\* C17: after any sequence of creations (addPlant) and edits (saveEdit), the
\* frequency stored with a plant is absent or a whole number of days greater
\* than zero, whatever text was typed into the frequency field.
StoredFrequencyPositive ==
    \A i \in 1..Len(plantsTable) :
        \/ plantsTable[i].frequency_days = Null
        \/ plantsTable[i].frequency_days[1] > 0

-----------------------------------------------------------------------------
(* Claims about the copies of the schedule logic (SpecEval).               *)

\* the classification a NextWaterInfo stands for, in the dashboard's keys
ClassificationOf(info) ==
    IF info.kind = "noFrequency" THEN "semFrequencia"
    ELSE IF info.kind = "noLast" THEN "primeiraRega"
    ELSE IF info.isOverdue THEN "atrasada"
    ELSE IF info.isToday THEN "hoje"
    ELSE "emDia"

SameEvaluation(c, info) ==
    /\ c.status.key = ClassificationOf(info)
    /\ c.nextDateIso = info.nextDateIso
    /\ c.deltaDays = info.deltaDays
    /\ c.nextText = info.text

\* C19: for the plant record, the last watering and the today the dashboard
\* has evaluated, the plant detail page's evaluator and the home page's
\* evaluator give the dashboard's classification, next-due date, deltaDays
\* and display text.
CopiesAgree ==
    Evaluated =>
        LET p == plants[1]
            c == allCards[1]
        IN  /\ SameEvaluation(c, nextInfoOf(p, events, todayIso))
            /\ SameEvaluation(c,
                 homeGetNextWaterInfo(
                     HomePlant(p.id, p.name, p.frequency_days,
                               c.lastWaterDateIso),
                     todayIso))

\* the copies agree on every plant whose frequency_days is a number
CopiesAgreeOnFrequencyDays ==
    Evaluated /\ plants[1].frequency_days # Null =>
        LET p == plants[1]
            c == allCards[1]
        IN  /\ SameEvaluation(c, nextInfoOf(p, events, todayIso))
            /\ SameEvaluation(c,
                 homeGetNextWaterInfo(
                     HomePlant(p.id, p.name, p.frequency_days,
                               c.lastWaterDateIso),
                     todayIso))

-----------------------------------------------------------------------------
(* Claims about the home page's order across statuses (Spec).              *)

\* C20: in the home page's list sorted most urgent first, no plant of a
\* later status stands before a plant of an earlier status, the statuses
\* taken in the order atrasada, hoje, emDia, primeiraRega, semFrequencia.
HomeRankedByStatus ==
    HomeRankedByUrgency =>
        \A i, j \in 1..Len(visiblePlants) :
            i < j =>
                statusPriority(HomeStatusKey(visiblePlants[i]))
                    <= statusPriority(HomeStatusKey(visiblePlants[j]))

-----------------------------------------------------------------------------
(* getOrCreateHousehold (src/lib/household.ts).  Each await is one step of *)
(* a call; the calls are all made for the signed-in user Me.  Which        *)
(* columns of households are UNIQUE is not in the repository: every        *)
(* combination of owner_user_id and invite_code is followed.               *)

Calls == 1..MaxCalls

Me == "me"

\* the owner of a household that is already stored
Neighbour == "neighbour"

\* makeInviteCode: one of a few codes instead of 32^7
InviteCodes == {1, 2}

Household(id, owner, code) ==
    [id |-> id, owner_user_id |-> owner, invite_code |-> code]

\* the rows .eq("owner_user_id", user.id) selects
ownedBy(rows, user) == SelectSeq(rows, LAMBDA h : h.owner_user_id = user)

\* the insert breaks a UNIQUE constraint of the table
collides(row) ==
    \E i \in 1..Len(households) :
        \/ "owner_user_id" \in uniqueColumns
             /\ households[i].owner_user_id = row.owner_user_id
        \/ "invite_code" \in uniqueColumns
             /\ households[i].invite_code = row.invite_code

\* a page calls getOrCreateHousehold
CallStart(c) ==
    /\ callPc[c] = "idle"
    /\ callPc' = [callPc EXCEPT ![c] = "getUser"]
    /\ UNCHANGED <<dateVars, pageVars, formVars, dbVars, homeVars, batchVars,
                   localVars, households, uniqueColumns, attempt, callErr,
                   callResult>>

\* the insert tried again after any error, not only after a collision
getOrCreateHousehold_RetriesAnyError(c, answered, code) ==
    LET mine == ownedBy(households, Me)
        row  == Household(Len(households) + 1, Me, code)
        throw(e) ==
            /\ callPc' = [callPc EXCEPT ![c] = "thrown"]
            /\ callErr' = [callErr EXCEPT ![c] = Some(e)]
    IN  /\ \/ /\ callPc[c] = "getUser"
              /\ IF answered
                 THEN /\ callPc' = [callPc EXCEPT ![c] = "select"]
                      /\ UNCHANGED callErr
                 ELSE throw("other")
              /\ UNCHANGED <<households, attempt, callResult>>
           \/ /\ callPc[c] = "select"
              /\ IF ~answered THEN throw("other") /\ UNCHANGED callResult
                 ELSE IF Len(mine) > 1
                 THEN throw("multiple rows") /\ UNCHANGED callResult
                 ELSE IF Len(mine) = 1
                 THEN /\ callPc' = [callPc EXCEPT ![c] = "returned"]
                      /\ callResult' = [callResult EXCEPT ![c] = mine[1]]
                      /\ UNCHANGED callErr
                 ELSE /\ callPc' = [callPc EXCEPT ![c] = "insert"]
                      /\ UNCHANGED <<callErr, callResult>>
              /\ UNCHANGED <<households, attempt>>
           \/ /\ callPc[c] = "insert"
              /\ attempt[c] < MaxAttempts
              /\ attempt' = [attempt EXCEPT ![c] = @ + 1]
              /\ IF ~answered \/ collides(row)
                 THEN /\ callErr' = [callErr EXCEPT ![c] =
                                       IF answered THEN Some("unique")
                                       ELSE Some("other")]
                      /\ callPc' = [callPc EXCEPT ![c] =
                                      IF attempt[c] + 1 = MaxAttempts
                                      THEN "thrown" ELSE "insert"]
                      /\ UNCHANGED <<households, callResult>>
                 ELSE /\ households' = Append(households, row)
                      /\ callPc' = [callPc EXCEPT ![c] = "returned"]
                      /\ callResult' = [callResult EXCEPT ![c] = row]
                      /\ UNCHANGED callErr
        /\ UNCHANGED <<dateVars, pageVars, formVars, dbVars, homeVars,
                       batchVars, localVars, uniqueColumns>>

\* one step of call c: the answer to its pending request.  answered is
\* FALSE when the request fails for a reason of its own (network, policy).
getOrCreateHousehold(c, answered, code) ==
    LET mine == ownedBy(households, Me)
        row  == Household(Len(households) + 1, Me, code)
        throw(e) ==
            /\ callPc' = [callPc EXCEPT ![c] = "thrown"]
            /\ callErr' = [callErr EXCEPT ![c] = Some(e)]
    IN  /\ \/ /\ callPc[c] = "getUser"
              /\ IF answered
                 THEN /\ callPc' = [callPc EXCEPT ![c] = "select"]
                      /\ UNCHANGED callErr
                 ELSE throw("other")
              /\ UNCHANGED <<households, attempt, callResult>>
           \/ /\ callPc[c] = "select"
              /\ IF ~answered THEN throw("other") /\ UNCHANGED callResult
                 ELSE IF Len(mine) > 1
                 THEN throw("multiple rows") /\ UNCHANGED callResult
                 ELSE IF Len(mine) = 1
                 THEN /\ callPc' = [callPc EXCEPT ![c] = "returned"]
                      /\ callResult' = [callResult EXCEPT ![c] = mine[1]]
                      /\ UNCHANGED callErr
                 ELSE /\ callPc' = [callPc EXCEPT ![c] = "insert"]
                      /\ UNCHANGED <<callErr, callResult>>
              /\ UNCHANGED <<households, attempt>>
           \/ /\ callPc[c] = "insert"
              /\ attempt[c] < MaxAttempts
              /\ attempt' = [attempt EXCEPT ![c] = @ + 1]
              /\ IF ~answered
                 THEN throw("other") /\ UNCHANGED <<households, callResult>>
                 ELSE IF collides(row)
                 THEN /\ callErr' = [callErr EXCEPT ![c] = Some("unique")]
                      /\ callPc' = [callPc EXCEPT ![c] =
                                      IF attempt[c] + 1 = MaxAttempts
                                      THEN "thrown" ELSE "insert"]
                      /\ UNCHANGED <<households, callResult>>
                 ELSE /\ households' = Append(households, row)
                      /\ callPc' = [callPc EXCEPT ![c] = "returned"]
                      /\ callResult' = [callResult EXCEPT ![c] = row]
                      /\ UNCHANGED callErr
        /\ UNCHANGED <<dateVars, pageVars, formVars, dbVars, homeVars,
                       batchVars, localVars, uniqueColumns>>

-----------------------------------------------------------------------------
(* Specification SpecHousehold: up to MaxCalls calls for the same user, at *)
(* any times, on a table that holds no household or a neighbour's.         *)

InitHousehold ==
    /\ DateIdle
    /\ HomeIdle
    /\ BatchIdle
    /\ LocalIdle
    /\ PagesIdle
    /\ TablesUntracked
    /\ households \in {<<>>, <<Household(1, Neighbour, 1)>>}
    /\ uniqueColumns \in SUBSET {"owner_user_id", "invite_code"}
    /\ callPc = [c \in Calls |-> "idle"]
    /\ attempt = [c \in Calls |-> 0]
    /\ callErr = [c \in Calls |-> Null]
    /\ callResult = [c \in Calls |-> Null]

CallStep(c) ==
    \E answered \in BOOLEAN, code \in InviteCodes :
        getOrCreateHousehold(c, answered, code)

NextHousehold ==
    \/ \E c \in Calls : CallStart(c)
    \/ \E c \in Calls : CallStep(c)

SpecHousehold == InitHousehold /\ [][NextHousehold]_vars

\* every request is answered in the end
SpecHouseholdFair ==
    SpecHousehold /\ \A c \in Calls : WF_vars(CallStep(c))

-----------------------------------------------------------------------------
(* Claims about getOrCreateHousehold (SpecHousehold, SpecHouseholdFair).   *)

\* a call may throw because a request failed for a reason of its own, or
\* because every invite code it drew was taken while the user had no
\* household
OneHouseholdForAll ==
    /\ Len(ownedBy(households, Me)) <= 1
    /\ \A c \in Calls :
          /\ callPc[c] = "thrown" =>
                \/ callErr[c] = Some("other")
                \/ callErr[c] = Some("unique") /\ ownedBy(households, Me) = <<>>
          /\ callPc[c] = "returned" =>
                callResult[c] = ownedBy(households, Me)[1]

FoundMeansNoInsert ==
    \A c \in Calls :
        callPc[c] = "select" /\ callPc'[c] # "select"
            /\ ownedBy(households, Me) # <<>> =>
          households' = households /\ callPc'[c] # "insert"

\* C21: whatever the calls of getOrCreateHousehold for one user and their
\* interleaving, the user owns at most one household, every call whose
\* requests are answered returns it, and a call that finds a household
\* inserts nothing.
HouseholdCreatedOnce == []OneHouseholdForAll /\ [][FoundMeansNoInsert]_vars

InsertAnswered(c) == callPc[c] = "insert" /\ attempt'[c] # attempt[c]

\* C29: a call that found no household makes at most MaxAttempts = 5
\* inserts and then ends: after an insert it goes on to another one only
\* when the insert failed with a uniqueness collision and fewer than 5 were
\* made, it throws at once on any other error and throws the collision
\* after the fifth, and it returns only a household that is stored (found
\* by the select or just inserted).
InsertsBounded ==
    /\ [](\A c \in Calls :
            /\ attempt[c] <= MaxAttempts
            /\ callPc[c] = "returned" =>
                  \E i \in 1..Len(households) :
                      /\ households[i] = callResult[c]
                      /\ callResult[c].owner_user_id = Me
            /\ callPc[c] = "insert" => attempt[c] < MaxAttempts)
    /\ [][\A c \in Calls :
            InsertAnswered(c) =>
              /\ attempt'[c] = attempt[c] + 1
              /\ IF households' # households
                 THEN /\ callPc'[c] = "returned"
                      /\ callResult'[c] = households'[Len(households')]
                 ELSE /\ households' = households
                      /\ callErr'[c] \in {Some("unique"), Some("other")}
                      /\ callPc'[c] =
                           IF callErr'[c] = Some("unique")
                              /\ attempt'[c] < MaxAttempts
                           THEN "insert" ELSE "thrown"]_vars
    /\ \A c \in Calls :
          callPc[c] = "insert" ~> callPc[c] \in {"returned", "thrown"}

\* a call gave up after five collisions
InsertsBoundedWitness ==
    \E c \in Calls :
        /\ callPc[c] = "thrown"
        /\ attempt[c] = MaxAttempts
        /\ callErr[c] = Some("unique")

-----------------------------------------------------------------------------
(* Home page: waterNow, removePlant, saveEditPlace and the realtime        *)
(* handler, with the page open in the browser of each member.  A member    *)
(* awaits one request at a time.                                           *)

Members == 1..MaxMembers

Watering(dateIso, time) == [dateIso |-> dateIso, time |-> time]

\* a row of table plants as the home page reads it
PlantRow(id, name) ==
    [id |-> id, name |-> name, place |-> Null, frequency_days |-> Null,
     last_watered_date_iso |-> Null, last_watered_time |-> Null,
     waterings |-> <<>>]

\* prev.map((p) => (p.id === id ? f(p) : p)), with changed[i] for f(prev[i])
mapPlant(prev, id, changed) ==
    [i \in 1..Len(prev) |-> IF prev[i].id = id THEN changed[i] ELSE prev[i]]

\* the optimistic step of m's operation and the request it sends
homeStart(m, nextPlants, request) ==
    /\ pending[m] = Null
    /\ clockMinute < MaxPresses
    /\ clockMinute' = clockMinute + 1
    /\ memberPlants' = [memberPlants EXCEPT ![m] = nextPlants]
    /\ pending' = [pending EXCEPT ![m] = request]
    /\ UNCHANGED <<dateVars, pageVars, formVars, dbVars, houseVars, batchVars,
                   localVars, realtime, accepted>>

homeWaterNow(m, plantId) ==
    LET now      == Watering(clockIso, clockMinute)
        found    == CHOOSE p \in {memberPlants[m][i] :
                                    i \in 1..Len(memberPlants[m])} :
                        p.id = plantId
        columns  == [last_watered_date_iso |-> now.dateIso,
                     last_watered_time |-> now.time,
                     waterings |-> <<now>> \o found.waterings]
        local(p) == [k \in DOMAIN p |->
                       IF k \in DOMAIN columns THEN columns[k] ELSE p[k]]
        next ==
            [i \in 1..Len(memberPlants[m]) |-> local(memberPlants[m][i])]
    IN  /\ \E i \in 1..Len(memberPlants[m]) : memberPlants[m][i].id = plantId
        /\ homeStart(m, mapPlant(memberPlants[m], plantId, next),
                     [op |-> "update", id |-> plantId, stage |-> "write",
                      watering |-> Some(now), patch |-> columns])

\* removePlant, confirmed in the dialog
homeRemovePlant(m, plantId) ==
    homeStart(m, SelectSeq(memberPlants[m], LAMBDA p : p.id # plantId),
              [op |-> "delete", id |-> plantId, stage |-> "write"])

homeSaveEditPlace(m, plantId, editPlace) ==
    LET trimmed == trim(editPlace)
        place   == IF trimmed # <<>> THEN trimmed ELSE Null
        patch(p) == [p EXCEPT !.place = place]
        next ==
            [i \in 1..Len(memberPlants[m]) |-> patch(memberPlants[m][i])]
    IN  homeStart(m, mapPlant(memberPlants[m], plantId, next),
                  [op |-> "update", id |-> plantId, stage |-> "write",
                   watering |-> Null, patch |-> [place |-> place]])

\* the answer to the request m awaits.  The write is accepted or refused;
\* after a refusal the handler selects the household's plants again and
\* takes whatever data comes back, null when that select fails too.
homeAnswered(m, ok) ==
    LET r      == pending[m]
        \* the row with the columns of the patch overwritten
        patched(row, patch) ==
            [k \in DOMAIN row |->
               IF k \in DOMAIN patch THEN patch[k] ELSE row[k]]
        hit    == {i \in 1..Len(plantsTable) : plantsTable[i].id = r.id}
        after  == IF r.op = "delete"
                  THEN SelectSeq(plantsTable, LAMBDA p : p.id # r.id)
                  ELSE [i \in 1..Len(plantsTable) |->
                          IF i \in hit THEN patched(plantsTable[i], r.patch)
                          ELSE plantsTable[i]]
        change == IF r.op = "delete"
                  THEN [eventType |-> "DELETE", old |-> [id |-> r.id]]
                  ELSE [eventType |-> "UPDATE",
                        new |-> patched(plantsTable[CHOOSE i \in hit : TRUE],
                                        r.patch)]
    IN  /\ pending[m] # Null
        /\ \/ /\ r.stage = "write"
              /\ ok
              /\ plantsTable' = after
              /\ realtime' = IF hit = {} THEN realtime
                             ELSE [n \in Members |-> Append(realtime[n], change)]
              /\ accepted' = IF hit # {} /\ r.op = "update"
                                /\ r.watering # Null
                             THEN accepted \cup
                                    {[plant_id |-> r.id,
                                      watering |-> r.watering[1]]}
                             ELSE accepted
              /\ pending' = [pending EXCEPT ![m] = Null]
              /\ UNCHANGED memberPlants
           \/ /\ r.stage = "write"
              /\ ~ok
              /\ pending' = [pending EXCEPT ![m] = [stage |-> "reload"]]
              /\ UNCHANGED <<plantsTable, realtime, accepted, memberPlants>>
           \/ /\ r.stage = "reload"
              /\ memberPlants' =
                   [memberPlants EXCEPT ![m] =
                      IF ok THEN plantsQuery(plantsTable) ELSE <<>>]
              /\ pending' = [pending EXCEPT ![m] = Null]
              /\ UNCHANGED <<plantsTable, realtime, accepted>>
        /\ UNCHANGED <<dateVars, pageVars, formVars, eventsTable, houseVars,
                       batchVars, localVars, clockMinute>>

\* the postgres_changes handler of member m takes the next payload
realtimeHandler(m) ==
    LET payload == Head(realtime[m])
        prev    == memberPlants[m]
        new(p)  == payload.new
    IN  /\ realtime[m] # <<>>
        /\ realtime' = [realtime EXCEPT ![m] = Tail(@)]
        /\ memberPlants' =
             [memberPlants EXCEPT ![m] =
                IF payload.eventType = "UPDATE"
                THEN mapPlant(prev, payload.new.id,
                              [i \in 1..Len(prev) |-> new(prev[i])])
                ELSE SelectSeq(prev, LAMBDA p : p.id # payload.old.id)]
        /\ UNCHANGED <<dateVars, pageVars, formVars, dbVars, houseVars,
                       batchVars, localVars, pending, accepted, clockMinute>>

-----------------------------------------------------------------------------
(* Specification SpecHome: a household of two plants, its home page open   *)
(* and loaded in the browser of each member.                               *)

\* "x" and the empty text
PlaceTexts == {<<120>>, <<>>}

InitHome ==
    /\ DateIdle
    /\ HouseholdIdle
    /\ BatchIdle
    /\ LocalIdle
    /\ InitPages({"home"}, {RankToday})
    /\ plantsTable = <<PlantRow(1, <<97>>), PlantRow(2, <<98>>)>>
    /\ eventsTable = <<>>
    /\ memberPlants = [m \in Members |-> plantsQuery(plantsTable)]
    /\ pending = [m \in Members |-> Null]
    /\ realtime = [m \in Members |-> <<>>]
    /\ accepted = {}
    /\ clockMinute = 0

NextHome ==
    \/ \E m \in Members, plantId \in 1..2 : homeWaterNow(m, plantId)
    \/ \E m \in Members, plantId \in 1..2 : homeRemovePlant(m, plantId)
    \/ \E m \in Members, plantId \in 1..2, editPlace \in PlaceTexts :
          homeSaveEditPlace(m, plantId, editPlace)
    \/ \E m \in Members, ok \in BOOLEAN : homeAnswered(m, ok)
    \/ \E m \in Members : realtimeHandler(m)

SpecHome == InitHome /\ [][NextHome]_vars

-----------------------------------------------------------------------------
(* Claims about the home page's writes (SpecHome).                         *)

\* w is at least as late as v
NotEarlier(w, v) ==
    \/ DateBefore(v.dateIso, w.dateIso)
    \/ v.dateIso = w.dateIso /\ v.time <= w.time

\* C22: every watering the server accepted for a plant that is still stored
\* is in the plant's waterings, and the plant's last_watered_date_iso and
\* last_watered_time are those of the latest accepted watering.
AcceptedWateringsKept ==
    \A i \in 1..Len(plantsTable) :
        LET row  == plantsTable[i]
            mine == {a.watering : a \in {b \in accepted : b.plant_id = row.id}}
        IN  /\ \A w \in mine :
                  \E k \in 1..Len(row.waterings) : row.waterings[k] = w
            /\ mine # {} =>
                  LET last == Watering(row.last_watered_date_iso,
                                       row.last_watered_time)
                  IN  last \in mine /\ \A w \in mine : NotEarlier(last, w)

\* C26: when the write of waterNow, removePlant or saveEditPlace was refused
\* and the handler has finished, the member's plant list is the household's
\* plant list as the server holds it.
RollbackRestoresServerList ==
    [][\A m \in Members :
          pending[m] # Null /\ pending[m].stage = "reload"
              /\ pending'[m] = Null =>
            memberPlants'[m] = plantsQuery(plantsTable)]_vars

-----------------------------------------------------------------------------
(* Dashboard: batch mode (enterMode, cancelBatch, toggleSelect,            *)
(* selectAllVisible, clearSelection, confirmBatch) and loadAll with its    *)
(* requests in flight.  A request of loadAll is answered by the server at  *)
(* one moment and its answer reaches the page at a later one.              *)

\* the ids of the cards shown
shownIds == {filteredCards[i].plant.id : i \in 1..Len(filteredCards)}

\* selectedIds: the selected ids as a list, in the order of the keys of the
\* object (here ascending)
RECURSIVE ascending(_)
ascending(ids) ==
    IF ids = {} THEN <<>>
    ELSE LET least == CHOOSE i \in ids : \A j \in ids : i <= j
         IN  <<least>> \o ascending(ids \ {least})

\* the buttons and cards of batch mode
batchControls ==
    /\ route = "dashboard"
    /\ \/ /\ mode = "idle"                     \* enterMode
          /\ mode' \in {"waterBatch", "sunBatch"}
          /\ selected' = {}
       \/ /\ mode # "idle"                     \* cancelBatch
          /\ ~savingBatch
          /\ mode' = "idle"
          /\ selected' = {}
       \/ /\ mode # "idle"                     \* toggleSelect, on a card
          /\ ~loading
          /\ \E id \in shownIds :
                selected' = IF id \in selected THEN selected \ {id}
                            ELSE selected \cup {id}
          /\ UNCHANGED mode
       \/ /\ mode # "idle"                     \* selectAllVisible
          /\ selected' = shownIds
          /\ UNCHANGED mode
       \/ /\ mode # "idle"                     \* clearSelection
          /\ selected' = {}
          /\ UNCHANGED mode
    /\ UNCHANGED <<dateVars, pageVars, formVars, dbVars, houseVars, homeVars,
                   localVars, savingBatch, confirming, reloading>>

\* confirmBatch: the click, accepted in the dialog, and then the answers to
\* getUser, to the insert and to the select of the events
confirmBatch(ok) ==
    LET c == IF confirming = Null THEN Null ELSE confirming[1]
        payload ==
            [i \in 1..Len(c.selectedIds) |->
               DbEvent(c.selectedIds[i],
                       IF c.mode = "waterBatch" THEN "water" ELSE "sun",
                       clockIso)]
        failed ==
            /\ err' = Some("Erro ao salvar eventos em lote.")
            /\ savingBatch' = FALSE
            /\ confirming' = Null
            /\ UNCHANGED <<mode, selected, events, allCards, filteredCards>>
    IN  /\ route = "dashboard"
        /\ \/ /\ confirming = Null
              /\ mode # "idle"
              /\ ~savingBatch
              /\ selected # {}
              /\ Len(eventsTable) + Cardinality(selected) <= MaxEvents
              /\ savingBatch' = TRUE
              /\ err' = Null
              /\ confirming' = Some([stage |-> "getUser", mode |-> mode,
                                     selectedIds |-> ascending(selected),
                                     stored |-> <<>>])
              /\ UNCHANGED <<mode, selected, events, allCards, filteredCards,
                             eventsTable>>
           \/ /\ confirming # Null
              /\ c.stage = "getUser"
              /\ confirming' = Some([c EXCEPT !.stage = "insert"])
              /\ UNCHANGED <<mode, selected, savingBatch, err, events,
                             allCards, filteredCards, eventsTable>>
           \/ /\ confirming # Null
              /\ c.stage = "insert"
              /\ IF ok
                 THEN /\ eventsTable' = eventsTable \o payload
                      /\ confirming' = Some([c EXCEPT !.stage = "select",
                                                      !.stored = payload])
                      /\ UNCHANGED <<mode, selected, savingBatch, err, events,
                                     allCards, filteredCards>>
                 ELSE failed /\ UNCHANGED eventsTable
           \/ /\ confirming # Null
              /\ c.stage = "select"
              /\ IF ok
                 THEN /\ events' = dashboardEventsQuery(eventsTable)
                      /\ allCards' = allCardsOf(plants, events', todayIso)
                      /\ filteredCards' =
                           filteredCardsOf(allCards', query, statusFilter)
                      /\ mode' = "idle"
                      /\ selected' = {}
                      /\ savingBatch' = FALSE
                      /\ confirming' = Null
                      /\ UNCHANGED err
                 ELSE failed
              /\ UNCHANGED eventsTable
        /\ UNCHANGED <<dateVars, formVars, houseVars, homeVars, localVars,
                       plantsTable, reloading, route, clockIso, loading,
                       plants, plant, todayIso, query, statusFilter, nextInfo,
                       sortBy, hydrated, visiblePlants>>

\* loadAll, started by the mount effect or by "Recarregar": the click, the
\* moment the server answers its queries, and the moment the answers reach
\* the page
loadAll(outcome) ==
    /\ route = "dashboard"
    /\ \/ /\ reloading = Null
          /\ err' = Null
          /\ loading' = TRUE
          /\ reloading' = Some([served |-> FALSE, plants |-> <<>>,
                                 events |-> <<>>])
          /\ UNCHANGED <<plants, events, allCards, filteredCards>>
       \/ /\ reloading # Null
          /\ ~reloading[1].served
          /\ reloading' = Some([served |-> TRUE,
                                 plants |-> plantsQuery(plantsTable),
                                 events |-> dashboardEventsQuery(eventsTable)])
          /\ UNCHANGED <<err, loading, plants, events, allCards,
                         filteredCards>>
       \/ /\ reloading # Null
          /\ reloading[1].served
          /\ plants' = IF outcome = "errorBeforePlants" THEN plants
                       ELSE reloading[1].plants
          /\ events' = IF outcome = "ok" THEN reloading[1].events ELSE events
          /\ err' = IF outcome = "ok" THEN err
                    ELSE Some("Erro ao carregar dashboard.")
          /\ loading' = FALSE
          /\ allCards' = allCardsOf(plants', events', todayIso)
          /\ filteredCards' = filteredCardsOf(allCards', query, statusFilter)
          /\ reloading' = Null
    /\ UNCHANGED <<dateVars, formVars, dbVars, houseVars, homeVars, localVars,
                   mode, selected, savingBatch, confirming, route, clockIso,
                   plant, todayIso, query, statusFilter, nextInfo, sortBy,
                   hydrated, visiblePlants>>

-----------------------------------------------------------------------------
(* Specification SpecBatch: the dashboard of a household of two plants,    *)
(* one due today and one without frequency, from the moment it is mounted. *)

BatchFilters == {"all", "hoje"}

InitBatch ==
    /\ DateIdle
    /\ HouseholdIdle
    /\ HomeIdle
    /\ LocalIdle
    /\ InitPages({"dashboard"}, {RankToday})
    /\ plantsTable = <<DbPlant(1, <<97>>, Some(3), Null),
                       DbPlant(2, <<98>>, Null, Null)>>
    /\ eventsTable = <<DbEvent(1, "water", D3)>>
    /\ mode = "idle"
    /\ selected = {}
    /\ savingBatch = FALSE
    /\ confirming = Null
    /\ reloading = Some([served |-> FALSE, plants |-> <<>>, events |-> <<>>])

NextBatch ==
    \/ batchControls
    \/ \E ok \in BOOLEAN : confirmBatch(ok)
    \/ \E outcome \in DashboardOutcomes : loadAll(outcome)
    \/ \E k \in BatchFilters : SetStatusFilter(k)

SpecBatch == InitBatch /\ [][NextBatch]_vars

-----------------------------------------------------------------------------
(* Claims about batch mode (SpecBatch).                                    *)

\* C23: once nothing is in flight and no error is shown, the events state is
\* what the events query gives on the stored events: it includes every
\* event a confirmBatch has inserted, whatever loadAll was in flight.
EventsIncludeBatch ==
    confirming = Null /\ reloading = Null /\ err = Null =>
        events = dashboardEventsQuery(eventsTable)

BatchEnds == confirming # Null /\ confirming' = Null

\* C24: a confirmBatch that ends with its error message has stored no
\* event; one that ends without has stored one event per selected plant, of
\* type water in waterBatch mode and sun in sunBatch mode, and leaves the
\* mode idle and the selection empty; savingBatch is false either way.
BatchAllOrNothing ==
    [][BatchEnds =>
         /\ savingBatch' = FALSE
         /\ IF err' = Some("Erro ao salvar eventos em lote.")
            THEN confirming[1].stored = <<>>
            ELSE /\ Len(confirming[1].stored) = Len(confirming[1].selectedIds)
                 /\ \A i \in 1..Len(confirming[1].stored) :
                       /\ confirming[1].stored[i].plant_id
                            = confirming[1].selectedIds[i]
                       /\ confirming[1].stored[i].event_type
                            = IF confirming[1].mode = "waterBatch" THEN "water"
                              ELSE "sun"
                 /\ mode' = "idle"
                 /\ selected' = {}]_vars

\* C25: the plants a confirmBatch creates events for are shown in the
\* filtered list at the moment it is confirmed.
BatchOnlyShownPlants ==
    [][confirming = Null /\ confirming' # Null =>
         \A i \in 1..Len(confirming'[1].selectedIds) :
             confirming'[1].selectedIds[i] \in shownIds]_vars

-----------------------------------------------------------------------------
(* Plant detail: removePlant.  The two deletes are two requests; the       *)
(* field before of removing keeps the plant's events stored when the       *)
(* operation started, for the claim to compare with.                       *)

eventsOfPlant(table, plantId) ==
    SelectSeq(table, LAMBDA e : e.plant_id = plantId)

\* removePlant: the click, accepted in the dialog, and then the answers to
\* the delete of the plant's events and to the delete of the plant
removePlant(ok) ==
    LET failed ==
            /\ err' = Some("Erro ao remover planta.")
            /\ removing' = [removing EXCEPT !.stage = "idle"]
            /\ UNCHANGED <<dbVars, route>>
    IN  /\ route = "planta"
        /\ plant # Null
        /\ \/ /\ removing.stage = "idle"
              /\ ~loading
              /\ err' = Null
              /\ removing' = [stage |-> "events",
                              before |-> eventsOfPlant(eventsTable, plant.id)]
              /\ UNCHANGED <<dbVars, route>>
           \/ /\ removing.stage = "events"
              /\ IF ok
                 THEN /\ eventsTable' =
                           SelectSeq(eventsTable,
                                     LAMBDA e : e.plant_id # plant.id)
                      /\ removing' = [removing EXCEPT !.stage = "plant"]
                      /\ UNCHANGED <<plantsTable, err, route>>
                 ELSE failed
           \/ /\ removing.stage = "plant"
              /\ IF ok
                 THEN /\ plantsTable' =
                           SelectSeq(plantsTable, LAMBDA p : p.id # plant.id)
                      /\ removing' = [removing EXCEPT !.stage = "idle"]
                      /\ route' = "dashboard"
                      /\ UNCHANGED <<eventsTable, err>>
                 ELSE failed
        /\ UNCHANGED <<dateVars, formVars, houseVars, homeVars, batchVars,
                       localPlants, clockIso, loading, plants, plant, events,
                       todayIso, query, statusFilter, allCards, filteredCards,
                       nextInfo, sortBy, hydrated, visiblePlants>>

-----------------------------------------------------------------------------
(* Specification SpecRemove: the page of plant 1 of a household of two     *)
(* plants, with at most two events stored.                                 *)

RemoveEvents ==
    {DbEvent(1, "water", D3), DbEvent(1, "sun", D1), DbEvent(2, "water", D3)}

InitRemove ==
    /\ DateIdle
    /\ LaterIdle
    /\ InitPages({"planta"}, {RankToday})
    /\ plantsTable = <<DbPlant(1, <<97>>, Some(3), Null),
                       DbPlant(2, <<98>>, Null, Null)>>
    /\ eventsTable \in {<<>>} \cup {<<e>> : e \in RemoveEvents}
                       \cup {<<e, f>> : e \in RemoveEvents, f \in RemoveEvents}

NextRemove ==
    \/ ManualPlantLoad
    \/ \E ok \in BOOLEAN : removePlant(ok)

SpecRemove == InitRemove /\ [][NextRemove]_vars

-----------------------------------------------------------------------------
(* Claim about removePlant (SpecRemove).                                   *)

\* C27: when removePlant finishes, either the plant and all of its events
\* are deleted, or the plant and all of the events it had are still stored.
RemovePlantAllOrNothing ==
    [][removing.stage # "idle" /\ removing'.stage = "idle" =>
         LET stored == \E i \in 1..Len(plantsTable') :
                           plantsTable'[i].id = plant.id
             left   == eventsOfPlant(eventsTable', plant.id)
         IN  \/ ~stored /\ left = <<>>
             \/ stored /\ left = removing.before]_vars

-----------------------------------------------------------------------------
(* Local-storage variant: the home page and the plant detail page keep the *)
(* plants under STORAGE_KEY.  localPlants is what is stored there, which   *)
(* is also the plants state of the page that is open.  A time is the text  *)
(* HH:mm; undefined is Null.                                               *)

LocalPlant(id, waterings) ==
    [id |-> id,
     lastWateredDateIso |->
         IF waterings = <<>> THEN Null ELSE waterings[1].dateIso,
     lastWateredTime |-> IF waterings = <<>> THEN Null ELSE waterings[1].time,
     waterings |-> waterings]

\* nowInBrasiliaParts().timeBr
timeBr == TwoDigits(clockMinute \div 60) \o <<58>> \o TwoDigits(clockMinute % 60)

\* the keys are texts of one form, YYYY-MM-DDTHH:mm: they compare as their
\* dates and, on the same date, as their times
wateringKey(w) == <<w.dateIso, w.time>>

compareWateringsDesc(a, b) ==
    IF a.dateIso # b.dateIso
    THEN (IF DateBefore(a.dateIso, b.dateIso) THEN 1 ELSE -1)
    ELSE localeCompare(b.time, a.time)

\* list.sort(compareWateringsDesc)
RECURSIVE sortWaterings(_)
sortWaterings(list) ==
    IF list = <<>> THEN <<>>
    ELSE LET rest   == sortWaterings(Tail(list))
             before == SelectSeq(rest, LAMBDA w :
                                   compareWateringsDesc(w, Head(list)) < 0)
             after  == SelectSeq(rest, LAMBDA w :
                                   compareWateringsDesc(w, Head(list)) >= 0)
         IN  before \o <<Head(list)>> \o after

\* the plant with merged as its history and the first of merged as its last
\* watering
withMerged(p, merged) ==
    [p EXCEPT !.waterings = merged,
              !.lastWateredDateIso = merged[1].dateIso,
              !.lastWateredTime = merged[1].time]

\* home page: waterNow
localHomeWaterNow(plantId) ==
    LET newW == Watering(clockIso, timeBr)
        watered(p) == withMerged(p, <<newW>> \o p.waterings)
        next ==
            [i \in 1..Len(localPlants) |-> watered(localPlants[i])]
    IN  /\ route = "home"
        /\ \E i \in 1..Len(localPlants) :
              /\ localPlants[i].id = plantId
              /\ Len(localPlants[i].waterings) < MaxWaterings
        /\ localPlants' = mapPlant(localPlants, plantId, next)
        /\ UNCHANGED <<dateVars, pageVars, formVars, dbVars, houseVars,
                       homeVars, batchVars, removing>>

\* plant detail page: waterNow
localWaterNow(id) ==
    LET newW == Watering(clockIso, timeBr)
        watered(p) == withMerged(p, sortWaterings(<<newW>> \o p.waterings))
        next ==
            [i \in 1..Len(localPlants) |-> watered(localPlants[i])]
    IN  /\ route = "planta"
        /\ \E i \in 1..Len(localPlants) :
              /\ localPlants[i].id = id
              /\ Len(localPlants[i].waterings) < MaxWaterings
        /\ localPlants' = mapPlant(localPlants, id, next)
        /\ manualError' = Null
        /\ UNCHANGED <<dateVars, pageVars, dbVars, houseVars, homeVars,
                       batchVars, removing, editError, manualDateBr,
                       manualTime>>

\* plant detail page: addManualWatering, with the two fields as typed
localAddManualWatering(id, dateBr, time) ==
    LET iso  == parseBrDateToIso(dateBr)
        newW == Watering(iso, trim(time))
        added(p) == withMerged(p, sortWaterings(<<newW>> \o p.waterings))
        next ==
            [i \in 1..Len(localPlants) |-> added(localPlants[i])]
    IN  /\ route = "planta"
        /\ \E i \in 1..Len(localPlants) :
              /\ localPlants[i].id = id
              /\ Len(localPlants[i].waterings) < MaxWaterings
        /\ IF iso = Null
           THEN /\ manualError' = Some("Data invalida. Use dd/mm/aaaa.")
                /\ UNCHANGED localPlants
           ELSE IF ~isValidTimeHHmm(time)
           THEN /\ manualError' = Some("Hora invalida. Use HH:mm.")
                /\ UNCHANGED localPlants
           ELSE /\ manualError' = Null
                /\ localPlants' = mapPlant(localPlants, id, next)
        /\ UNCHANGED <<dateVars, pageVars, dbVars, houseVars, homeVars,
                       batchVars, removing, editError, manualDateBr,
                       manualTime>>

\* plant detail page: removeWatering, from the button of an entry of the
\* history
localRemoveWatering(id, targetKey) ==
    LET removed(p) ==
            LET filtered ==
                    sortWaterings(SelectSeq(p.waterings, LAMBDA w :
                                              wateringKey(w) # targetKey))
            IN  IF filtered = <<>>
                THEN [p EXCEPT !.waterings = filtered,
                               !.lastWateredDateIso = Null,
                               !.lastWateredTime = Null]
                ELSE withMerged(p, filtered)
        next ==
            [i \in 1..Len(localPlants) |-> removed(localPlants[i])]
    IN  /\ route = "planta"
        /\ \E i \in 1..Len(localPlants) :
              /\ localPlants[i].id = id
              /\ \E j \in 1..Len(localPlants[i].waterings) :
                    targetKey = wateringKey(localPlants[i].waterings[j])
        /\ localPlants' = mapPlant(localPlants, id, next)
        /\ UNCHANGED <<dateVars, pageVars, formVars, dbVars, houseVars,
                       homeVars, batchVars, removing>>

-----------------------------------------------------------------------------
(* Specification SpecLocal: one plant in storage, with no watering yet or  *)
(* with one of the day before; the user goes from one page to the other    *)
(* while the minutes pass.                                                 *)

\* today, tomorrow and a day that is not of the calendar
LocalDateTexts ==
    {BrDateText(2, 3, 2026), BrDateText(3, 3, 2026), BrDateText(29, 2, 2026)}

\* "00:00", "00:01" between blanks, "24:00"
LocalTimeTexts ==
    {TwoDigits(0) \o <<58>> \o TwoDigits(0),
     <<32>> \o TwoDigits(0) \o <<58>> \o TwoDigits(1) \o <<32>>,
     TwoDigits(24) \o <<58>> \o TwoDigits(0)}

LocalKeys ==
    {<<d, TwoDigits(0) \o <<58>> \o TwoDigits(m)>> :
        d \in {D1, RankToday, <<2026, 3, 3>>}, m \in 0..MaxMinute}

InitLocal ==
    /\ DateIdle
    /\ HouseholdIdle
    /\ HomeIdle
    /\ BatchIdle
    /\ TablesUntracked
    /\ InitPages({"home"}, {RankToday})
    /\ removing = [stage |-> "idle", before |-> <<>>]
    /\ localPlants \in
         {<<LocalPlant(1, <<>>)>>,
          <<LocalPlant(1, <<Watering(D1, TwoDigits(0) \o <<58>>
                                           \o TwoDigits(0))>>)>>}

NextLocal ==
    \/ /\ route' \in {"home", "planta"} \ {route}
       /\ UNCHANGED <<dateVars, formVars, dbVars, laterVars, clockIso,
                      loading, err, plants, plant, events, todayIso, query,
                      statusFilter, allCards, filteredCards, nextInfo, sortBy,
                      hydrated, visiblePlants>>
    \/ /\ clockMinute < MaxMinute
       /\ clockMinute' = clockMinute + 1
       /\ UNCHANGED <<dateVars, pageVars, formVars, dbVars, houseVars,
                      batchVars, localVars, memberPlants, pending, realtime,
                      accepted>>
    \/ localHomeWaterNow(1)
    \/ localWaterNow(1)
    \/ \E dateBr \in LocalDateTexts, time \in LocalTimeTexts :
          localAddManualWatering(1, dateBr, time)
    \/ \E targetKey \in LocalKeys : localRemoveWatering(1, targetKey)

SpecLocal == InitLocal /\ [][NextLocal]_vars

-----------------------------------------------------------------------------
(* Claim about the local-storage variant (SpecLocal).                      *)

MinuteOf(time) ==
    60 * digitsValue(SubSeq(time, 1, 2)) + digitsValue(SubSeq(time, 4, 5))

\* w is not earlier than v, by date and then by time
Newest(w, v) ==
    \/ DateBefore(v.dateIso, w.dateIso)
    \/ v.dateIso = w.dateIso /\ MinuteOf(v.time) <= MinuteOf(w.time)

LastIsNewest ==
    \A i \in 1..Len(localPlants) :
        LET p == localPlants[i]
        IN  IF p.waterings = <<>>
            THEN p.lastWateredDateIso = Null /\ p.lastWateredTime = Null
            ELSE \E j \in 1..Len(p.waterings) :
                    /\ p.lastWateredDateIso = p.waterings[j].dateIso
                    /\ p.lastWateredTime = p.waterings[j].time
                    /\ \A k \in 1..Len(p.waterings) :
                          Newest(p.waterings[j], p.waterings[k])

RemovesOneEntry ==
    \A i \in 1..Len(localPlants) :
        Len(localPlants'[i].waterings) < Len(localPlants[i].waterings) =>
            Len(localPlants'[i].waterings) = Len(localPlants[i].waterings) - 1

\* C28: in the local-storage variant a plant's lastWateredDateIso and
\* lastWateredTime are those of the newest entry of its waterings, by date
\* and then by time, and undefined exactly when the history is empty; and
\* removeWatering takes exactly one entry out of the history.
LocalHistoryConsistent == []LastIsNewest /\ [][RemovesOneEntry]_vars

=============================================================================
